---- MODULE Spec2Model ----
(***************************************************************************)
(* UkweliDB: the chained-record ledger (core/ledger.rs, core/record.rs,    *)
(* core/user.rs), the snapshot writer and reader (storage/writer.rs,       *)
(* storage/reader.rs), the write-ahead log (storage/append.rs) and         *)
(* recovery and compaction (storage/recovery.rs).                          *)
(*                                                                         *)
(* Strings are TLA+ strings.  sha256::digest is modelled as an injective   *)
(* function from strings to strings; a key pair is a number k, its         *)
(* verifying key the string VerifyingKeyOf(k); a signature records the     *)
(* signing key and the signed bytes.  Rust indices are 0-based: record i   *)
(* of the code is records[i + 1] here.                                     *)
(***************************************************************************)
EXTENDS Integers, Sequences, FiniteSets, TLC

\* ------------------------------------------------------------------------
\* Bounds of the model
\* ------------------------------------------------------------------------
MaxRecords == 3
MaxSigners == 2
\* entries written to one write-ahead log
MaxWalEntries == 2

\* ------------------------------------------------------------------------
\* Program constants
\* ------------------------------------------------------------------------
GENESIS_PREV_HASH == "00000000"
GENESIS_USER_ID == "GENESIS"
GENESIS_PAYLOAD == "Genesis"
HEX_DIGEST_LEN == 64
CHECKSUM_SIZE == 32
SIGNATURE_SIZE == 64
KEY_SIZE == 32
HEADER_SIZE == 64
FOOTER_SIZE == 64
MAGIC_NUMBER == "UKWL"
APPEND_MAGIC == "APND"
\* magic 4, entry_type 1, timestamp 8, data_size 4, checksum 32
ENTRY_HEADER_SIZE == 49
GenesisKey == 0

\* ------------------------------------------------------------------------
\* Inputs the callers draw from
\* ------------------------------------------------------------------------
UserIds == {"GENESIS", "alice", "bob"}
Payloads == {"", "pay 100"}
\* key pairs the callers hold; the key pair of Ledger::new is GenesisKey
Keys == {1, 2, 3}
Timestamps == {1700000000}
Nonces == {42}

\* records, users, verify_registry: the fields of the Ledger
\* file: the snapshot file at the database path (AbsentFile or its contents)
\* wal: the write-ahead log beside it; backup: the file <path>.backup
\* result: the last call made on the ledger or the file, and what it returned
VARIABLES records, users, verify_registry, file, wal, backup, workflows, result

ledgerVars == <<records, users, verify_registry>>
diskVars == <<file, wal, backup>>
vars == <<records, users, verify_registry, file, wal, backup, workflows, result>>

\* ------------------------------------------------------------------------
\* Maps (HashMap): functions on a finite domain
\* ------------------------------------------------------------------------
EmptyMap == [k \in {} |-> k]
MapInsert(m, k, v) == (k :> v) @@ m

\* ------------------------------------------------------------------------
\* The bytes of a WAL file: the complete entries, then the bytes after the
\* last complete entry (tail.len of them; none in a cleanly written log)
\* ------------------------------------------------------------------------
NoTail == [len |-> 0]
\* no file at a path
AbsentFile == [exists |-> FALSE]
EmptyWal == [entries |-> <<>>, tail |-> NoTail]

\* ------------------------------------------------------------------------
\* Cryptographic primitives
\* ------------------------------------------------------------------------
Digest(s) == "sha256(" \o s \o ")"
VerifyingKeyOf(signing_key) == "vk" \o ToString(signing_key)
UserNew(user_id, key) ==
    [user_id |-> user_id, signing_key |-> key,
     verifying_key |-> VerifyingKeyOf(key), roles |-> {}]
UserSign(user, data) == [key |-> user.signing_key, data |-> data]
VerifyStrict(verifying_key, data, signature) ==
    /\ VerifyingKeyOf(signature.key) = verifying_key
    /\ signature.data = data

\* the user objects the callers hold: two made by User::new("alice"), with
\* different key pairs; the scenarios have User::new("bob") as well
CallerUsers == {UserNew("alice", 1), UserNew("alice", 2)}
ScenarioUsers == CallerUsers \cup {UserNew("bob", 3)}
SignerLists == UNION {[1..n -> CallerUsers] : n \in 0..MaxSigners}
ScenarioSignerLists == UNION {[1..n -> ScenarioUsers] : n \in 0..MaxSigners}

\* ------------------------------------------------------------------------
\* Record::new
\* ------------------------------------------------------------------------
RECURSIVE JoinSigners(_)
JoinSigners(signers) ==
    IF signers = <<>> THEN ""
    ELSE IF Len(signers) = 1 THEN signers[1].user_id
    ELSE signers[1].user_id \o "," \o JoinSigners(Tail(signers))

RECURSIVE SignAll(_, _)
SignAll(signers, record_hash) ==
    IF signers = <<>> THEN EmptyMap
    ELSE LET n == Len(signers)
         IN MapInsert(SignAll(SubSeq(signers, 1, n - 1), record_hash),
                      signers[n].user_id, UserSign(signers[n], record_hash))

NewMaterial(index, prev_hash, payload_hash, timestamp, nonce, joined_signers) ==
    ToString(index) \o " " \o prev_hash \o " " \o payload_hash \o " "
        \o ToString(timestamp) \o " " \o ToString(nonce) \o " " \o joined_signers

RecordNew(index, payload, prev_hash, signers, timestamp, nonce) ==
    LET payload_hash == Digest(payload)
        record_hash == Digest(NewMaterial(index, prev_hash, payload_hash,
                                          timestamp, nonce, JoinSigners(signers)))
    IN [index |-> index, payload |-> payload, payload_hash |-> payload_hash,
        signers |-> signers, signatures |-> SignAll(signers, record_hash),
        prev_hash |-> prev_hash, record_hash |-> record_hash,
        timestamp |-> timestamp, nonce |-> nonce]

\* ------------------------------------------------------------------------
\* Ledger
\* ------------------------------------------------------------------------
LedgerNew(key, timestamp, nonce) ==
    LET genesis_user == UserNew(GENESIS_USER_ID, key)
        genesis_record == RecordNew(0, GENESIS_PAYLOAD, GENESIS_PREV_HASH,
                                    <<genesis_user>>, timestamp, nonce)
        signature == UserSign(genesis_user, genesis_record.record_hash)
    IN [records |-> <<[genesis_record EXCEPT !.signatures =
                          MapInsert(@, genesis_user.user_id, signature)]>>,
        users |-> MapInsert(EmptyMap, genesis_user.user_id, genesis_user),
        verify_registry |-> MapInsert(EmptyMap, genesis_user.user_id,
                                      genesis_user.verifying_key)]

Ok(value) == [status |-> "Ok", value |-> value]
Err(kind, msg) == [status |-> "Err", kind |-> kind, msg |-> msg]

\* add_record linking the new record to the payload hash of the last one
add_record_PrevPayloadHash(recs, registry, payload, signers, timestamp, nonce) ==
    IF \E j \in 1..Len(signers) : signers[j].user_id \notin DOMAIN registry
    THEN [records |-> recs, ret |-> Err("UnregistedUser", "")]
    ELSE IF recs = <<>>
    THEN [records |-> recs, ret |-> Err("RecordAccessFailed", "")]
    ELSE IF payload = ""
    THEN [records |-> recs, ret |-> Err("EmptyPayload", "")]
    ELSE LET last_record == recs[Len(recs)]
             record == RecordNew(last_record.index + 1, payload,
                                 last_record.payload_hash, signers, timestamp, nonce)
         IN [records |-> Append(recs, record), ret |-> Ok(record.index)]

\* add_record giving the new record the index of the last one
add_record_SameIndex(recs, registry, payload, signers, timestamp, nonce) ==
    IF \E j \in 1..Len(signers) : signers[j].user_id \notin DOMAIN registry
    THEN [records |-> recs, ret |-> Err("UnregistedUser", "")]
    ELSE IF recs = <<>>
    THEN [records |-> recs, ret |-> Err("RecordAccessFailed", "")]
    ELSE IF payload = ""
    THEN [records |-> recs, ret |-> Err("EmptyPayload", "")]
    ELSE LET last_record == recs[Len(recs)]
             record == RecordNew(last_record.index, payload,
                                 last_record.record_hash, signers, timestamp, nonce)
         IN [records |-> Append(recs, record), ret |-> Ok(record.index)]

\* add_record testing the payload before the signers
add_record_PayloadFirst(recs, registry, payload, signers, timestamp, nonce) ==
    IF payload = ""
    THEN [records |-> recs, ret |-> Err("EmptyPayload", "")]
    ELSE IF \E j \in 1..Len(signers) : signers[j].user_id \notin DOMAIN registry
    THEN [records |-> recs, ret |-> Err("UnregistedUser", "")]
    ELSE IF recs = <<>>
    THEN [records |-> recs, ret |-> Err("RecordAccessFailed", "")]
    ELSE LET last_record == recs[Len(recs)]
             record == RecordNew(last_record.index + 1, payload,
                                 last_record.record_hash, signers, timestamp, nonce)
         IN [records |-> Append(recs, record), ret |-> Ok(record.index)]

\* add_record without the test of the payload
add_record_NoPayloadCheck(recs, registry, payload, signers, timestamp, nonce) ==
    IF \E j \in 1..Len(signers) : signers[j].user_id \notin DOMAIN registry
    THEN [records |-> recs, ret |-> Err("UnregistedUser", "")]
    ELSE IF recs = <<>>
    THEN [records |-> recs, ret |-> Err("RecordAccessFailed", "")]
    ELSE LET last_record == recs[Len(recs)]
             record == RecordNew(last_record.index + 1, payload,
                                 last_record.record_hash, signers, timestamp, nonce)
         IN [records |-> Append(recs, record), ret |-> Ok(record.index)]

\* add_record storing the new record in the place of the last one
add_record_ReplacesLast(recs, registry, payload, signers, timestamp, nonce) ==
    IF \E j \in 1..Len(signers) : signers[j].user_id \notin DOMAIN registry
    THEN [records |-> recs, ret |-> Err("UnregistedUser", "")]
    ELSE IF recs = <<>>
    THEN [records |-> recs, ret |-> Err("RecordAccessFailed", "")]
    ELSE IF payload = ""
    THEN [records |-> recs, ret |-> Err("EmptyPayload", "")]
    ELSE LET last_record == recs[Len(recs)]
             record == RecordNew(last_record.index + 1, payload,
                                 last_record.record_hash, signers, timestamp, nonce)
         IN [records |-> IF Len(recs) = 1 THEN Append(recs, record)
                         ELSE Append(SubSeq(recs, 1, Len(recs) - 1), record),
             ret |-> Ok(record.index)]

add_record(recs, registry, payload, signers, timestamp, nonce) ==
    IF \E j \in 1..Len(signers) : signers[j].user_id \notin DOMAIN registry
    THEN [records |-> recs, ret |-> Err("UnregistedUser", "")]
    ELSE IF recs = <<>>
    THEN [records |-> recs, ret |-> Err("RecordAccessFailed", "")]
    ELSE IF payload = ""
    THEN [records |-> recs, ret |-> Err("EmptyPayload", "")]
    ELSE LET last_record == recs[Len(recs)]
             record == RecordNew(last_record.index + 1, payload,
                                 last_record.record_hash, signers, timestamp, nonce)
         IN [records |-> Append(recs, record), ret |-> Ok(record.index)]

register_user(us, registry, user) ==
    [users |-> MapInsert(us, user.user_id, user),
     verify_registry |-> MapInsert(registry, user.user_id, user.verifying_key)]

length(recs) == Len(recs)

\* verify_signatures: the error of the first failing signer, or "" when all pass
RECURSIVE verify_signatures(_, _, _)
verify_signatures(registry, record, j) ==
    IF j > Len(record.signers) THEN ""
    ELSE LET id == record.signers[j].user_id
         IN IF id \notin DOMAIN registry
            THEN "Unknown signer \"" \o id \o "\""
            ELSE IF id \notin DOMAIN record.signatures
            THEN "Missing signature from " \o id
            ELSE IF ~VerifyStrict(registry[id], record.record_hash, record.signatures[id])
            THEN "signature error"
            ELSE verify_signatures(registry, record, j + 1)

VerifyMaterial(record) ==
    ToString(record.index) \o " " \o record.prev_hash \o " "
        \o record.payload_hash \o " " \o JoinSigners(record.signers)

\* verify_record without the comparison of the payload with its hash
verify_record_NoPayloadCheck(recs, registry, i) ==
    LET record == recs[i + 1]
        sig_err == verify_signatures(registry, record, 1)
    IN IF i = 0 /\ record.prev_hash # GENESIS_PREV_HASH
       THEN "Invalid genesis"
       ELSE IF i > 0 /\ record.prev_hash # recs[i].record_hash
       THEN "Broken chain at " \o ToString(i)
       ELSE IF Digest(VerifyMaterial(record)) # record.record_hash
       THEN "Record hash mismatch at " \o ToString(i)
       ELSE IF sig_err # ""
       THEN "Signature validation failed: " \o sig_err
       ELSE ""

\* one iteration of the loop of verify_chain: "" when record i passes
verify_record(recs, registry, i) ==
    LET record == recs[i + 1]
        sig_err == verify_signatures(registry, record, 1)
    IN IF i = 0 /\ record.prev_hash # GENESIS_PREV_HASH
       THEN "Invalid genesis"
       ELSE IF i > 0 /\ record.prev_hash # recs[i].record_hash
       THEN "Broken chain at " \o ToString(i)
       ELSE IF Digest(record.payload) # record.payload_hash
       THEN "Payload tampered at " \o ToString(i)
       ELSE IF Digest(VerifyMaterial(record)) # record.record_hash
       THEN "Record hash mismatch at " \o ToString(i)
       ELSE IF sig_err # ""
       THEN "Signature validation failed: " \o sig_err
       ELSE ""

verify_chain(recs, registry) ==
    LET failing == {i \in 0..(Len(recs) - 1) : verify_record(recs, registry, i) # ""}
    IN IF failing = {} THEN Ok(TRUE)
       ELSE LET first == CHOOSE i \in failing : \A k \in failing : i <= k
            IN Err("ChainValidation", verify_record(recs, registry, first))

\* ------------------------------------------------------------------------
\* State machine
\* ------------------------------------------------------------------------
Init ==
    \E timestamp \in Timestamps, nonce \in Nonces :
        LET ledger == LedgerNew(GenesisKey, timestamp, nonce)
        IN /\ records = ledger.records
           /\ users = ledger.users
           /\ verify_registry = ledger.verify_registry
           /\ file = AbsentFile
           /\ wal = EmptyWal
           /\ backup = AbsentFile
           /\ workflows = EmptyMap
           /\ result = [op |-> "new", ret |-> Ok(length(ledger.records))]

RegisterUser(user) ==
    LET after == register_user(users, verify_registry, user)
    IN /\ users' = after.users
       /\ verify_registry' = after.verify_registry
       /\ result' = [op |-> "register_user", user |-> user, ret |-> Ok(TRUE)]
       /\ UNCHANGED <<records, diskVars, workflows>>

AddRecord(payload, signers, timestamp, nonce) ==
    LET after == add_record(records, verify_registry, payload, signers, timestamp, nonce)
    IN /\ Len(records) < MaxRecords
       /\ records' = after.records
       /\ result' = [op |-> "add_record", payload |-> payload,
                     signers |-> signers, ret |-> after.ret]
       /\ UNCHANGED <<users, verify_registry, diskVars, workflows>>

Next ==
    \/ \E user \in CallerUsers : RegisterUser(user)
    \/ \E payload \in Payloads, signers \in SignerLists,
          timestamp \in Timestamps, nonce \in Nonces :
            AddRecord(payload, signers, timestamp, nonce)

Spec == Init /\ [][Next]_vars

\* ------------------------------------------------------------------------
\* Snapshot file: storage/persitence.rs, storage/writer.rs, storage/reader.rs
\* Byte strings are records carrying their length and what they encode.
\* ------------------------------------------------------------------------
AsBytes(hex_string) == [len |-> HEX_DIGEST_LEN, ascii |-> hex_string]
HexDecode(hex_string) == [len |-> HEX_DIGEST_LEN \div 2, raw |-> hex_string]
TryIntoArray(bytes, n) == IF bytes.len = n THEN Ok(bytes) ELSE Err("TryFromSlice", "")
RkyvToBytes(value) == [len |-> Len(ToString(value)), rkyv |-> value]
\* sha256::digest of a byte string: the hex digest is named by the bytes
DigestBytes(bytes) == [sha256 |-> bytes]

\* the order in which a HashMap keyed by user_id is iterated
IterationOrders ==
    {order \in [1..Cardinality(UserIds) -> UserIds] :
        \A a, b \in DOMAIN order : a # b => order[a] # order[b]}
KeysInOrder(m, order) == SelectSeq(order, LAMBDA id : id \in DOMAIN m)

SerializableRecordFrom(record, order) ==
    LET ids == KeysInOrder(record.signatures, order)
    IN [index |-> record.index, payload |-> record.payload,
        payload_hash |-> record.payload_hash,
        signer_ids |-> [j \in 1..Len(record.signers) |-> record.signers[j].user_id],
        signatures |-> [j \in 1..Len(ids) |->
                          <<ids[j], [len |-> SIGNATURE_SIZE, sig |-> record.signatures[ids[j]]]>>],
        prev_hash |-> record.prev_hash, record_hash |-> record.record_hash,
        timestamp |-> record.timestamp, nonce |-> record.nonce]

SerializableUserFrom(user) ==
    [user_id |-> user.user_id,
     verifying_key_bytes |-> [len |-> KEY_SIZE, key |-> user.verifying_key],
     roles |-> user.roles]

DatabaseBodyOf(recs, us, order) ==
    LET ids == KeysInOrder(us, order)
    IN [records |-> [j \in 1..Len(recs) |-> SerializableRecordFrom(recs[j], order)],
        users |-> [j \in 1..Len(ids) |-> SerializableUserFrom(us[ids[j]])]]

DatabaseHeaderNew(record_count, body_offset, footer_offset, now) ==
    [magic |-> MAGIC_NUMBER, version_major |-> 1, version_minor |-> 0,
     record_count |-> record_count, created_timestamp |-> now, last_modified |-> now,
     body_offset |-> body_offset, footer_offset |-> footer_offset,
     checksum |-> [len |-> CHECKSUM_SIZE, zero |-> TRUE]]

\* a file of no bytes
EmptyFile == [len |-> 0]
FileLen(buffer) ==
    IF buffer = EmptyFile THEN 0
    ELSE HEADER_SIZE + buffer.body.len + buffer.footer.len

\* DatabaseWriter::new truncates the file; write_ledger then writes header,
\* body and footer, or returns early and leaves the file empty
write_ledger(recs, us, order, now) ==
    LET body == DatabaseBodyOf(recs, us, order)
        body_bytes == RkyvToBytes(body)
        body_checksum == DigestBytes(body_bytes)
        checksum_bytes == TryIntoArray(AsBytes(body_checksum), CHECKSUM_SIZE)
        body_offset == HEADER_SIZE
        footer_offset == body_offset + body_bytes.len
        header == [DatabaseHeaderNew(Len(recs), body_offset, footer_offset, now)
                      EXCEPT !.checksum = checksum_bytes.value]
        integrity_hash == DigestBytes(<<header, body_bytes>>)
        integrity_bytes == TryIntoArray(AsBytes(integrity_hash), CHECKSUM_SIZE)
        footer == [integrity_hash |-> integrity_bytes.value,
                   total_file_size |-> HEADER_SIZE + body_bytes.len + FOOTER_SIZE]
    IN IF checksum_bytes.status = "Err"
       THEN [file |-> EmptyFile, ret |-> Err("Serialization", "Checksum conversion failed")]
       ELSE IF integrity_bytes.status = "Err"
       THEN [file |-> EmptyFile,
             ret |-> Err("Serialization", "Integrity hash conversion failed")]
       ELSE [file |-> [header |-> header, body |-> body_bytes,
                       footer |-> [len |-> FOOTER_SIZE, rkyv |-> footer]],
             ret |-> Ok(TRUE)]

\* a reader that does not compare the checksum
read_and_verify_NoChecksum(buffer) ==
    IF FileLen(buffer) < HEADER_SIZE
    THEN Err("Serialization", "File truncated: missing header")
    ELSE LET header == buffer.header
         IN IF header.magic # MAGIC_NUMBER
            THEN Err("InvalidMagic", "")
            ELSE IF header.version_major # 1
            THEN Err("UnsupportedVersion", <<header.version_major, header.version_minor>>)
            ELSE IF DOMAIN buffer.body.rkyv # {"records", "users"}
            THEN Err("Deserialization", "Body corruption")
            ELSE Ok([header |-> header, body |-> buffer.body.rkyv])

\* a reader that accepts version 1.0 only
read_and_verify_MinorChecked(buffer) ==
    IF FileLen(buffer) < HEADER_SIZE
    THEN Err("Serialization", "File truncated: missing header")
    ELSE LET header == buffer.header
         IN IF header.magic # MAGIC_NUMBER
            THEN Err("InvalidMagic", "")
            ELSE IF header.version_major # 1 \/ header.version_minor # 0
            THEN Err("UnsupportedVersion", <<header.version_major, header.version_minor>>)
            ELSE IF HexDecode(DigestBytes(buffer.body)) # header.checksum
            THEN Err("ChecksumMismatch", "")
            ELSE IF DOMAIN buffer.body.rkyv # {"records", "users"}
            THEN Err("Deserialization", "Body corruption")
            ELSE Ok([header |-> header, body |-> buffer.body.rkyv])

\* a reader that looks at the version before the magic
read_and_verify_VersionFirst(buffer) ==
    IF FileLen(buffer) < HEADER_SIZE
    THEN Err("Serialization", "File truncated: missing header")
    ELSE LET header == buffer.header
         IN IF header.version_major # 1
            THEN Err("UnsupportedVersion", <<header.version_major, header.version_minor>>)
            ELSE IF header.magic # MAGIC_NUMBER
            THEN Err("InvalidMagic", "")
            ELSE IF HexDecode(DigestBytes(buffer.body)) # header.checksum
            THEN Err("ChecksumMismatch", "")
            ELSE IF DOMAIN buffer.body.rkyv # {"records", "users"}
            THEN Err("Deserialization", "Body corruption")
            ELSE Ok([header |-> header, body |-> buffer.body.rkyv])

read_and_verify(buffer) ==
    IF FileLen(buffer) < HEADER_SIZE
    THEN Err("Serialization", "File truncated: missing header")
    ELSE LET header == buffer.header
         IN IF header.magic # MAGIC_NUMBER
            THEN Err("InvalidMagic", "")
            ELSE IF header.version_major # 1
            THEN Err("UnsupportedVersion", <<header.version_major, header.version_minor>>)
            ELSE IF ~(/\ header.body_offset = HEADER_SIZE
                      /\ header.footer_offset = HEADER_SIZE + buffer.body.len)
            THEN IF header.body_offset <= header.footer_offset
                    /\ header.footer_offset <= FileLen(buffer)
                 THEN Err("ChecksumMismatch", "")
                 ELSE Err("Serialization", "Header offsets point outside file boundaries")
            ELSE IF HexDecode(DigestBytes(buffer.body)) # header.checksum
            THEN Err("ChecksumMismatch", "")
            ELSE IF DOMAIN buffer.body.rkyv # {"records", "users"}
            THEN Err("Deserialization", "Body corruption")
            ELSE Ok([header |-> header, body |-> buffer.body.rkyv])

\* DatabaseReader::new followed by read_and_verify
open_and_verify(f) ==
    IF f = AbsentFile THEN Err("Io", "NotFound") ELSE read_and_verify(f)

WriteLedger(order, now) ==
    LET written == write_ledger(records, users, order, now)
    IN /\ file' = written.file
       /\ result' = [op |-> "write_ledger", ret |-> written.ret]
       /\ UNCHANGED <<ledgerVars, wal, backup, workflows>>

ReadAndVerify ==
    /\ result' = [op |-> "read_and_verify", ret |-> open_and_verify(file)]
    /\ UNCHANGED <<ledgerVars, diskVars, workflows>>

\* ------------------------------------------------------------------------
\* Ledgers built through the API: Ledger::new, register_user of alice and
\* possibly of bob, then add_record calls signed by registered user objects
\* ------------------------------------------------------------------------
ledger_register(ledger, user) ==
    LET after == register_user(ledger.users, ledger.verify_registry, user)
    IN [ledger EXCEPT !.users = after.users, !.verify_registry = after.verify_registry]

ledger_add(ledger, payload, signers, timestamp, nonce) ==
    [ledger EXCEPT !.records =
        add_record(ledger.records, ledger.verify_registry, payload, signers,
                   timestamp, nonce).records]

RegisteredSignerLists(ledger) ==
    {signers \in ScenarioSignerLists :
        /\ signers # <<>>
        /\ \A j \in 1..Len(signers) :
              /\ signers[j].user_id \in DOMAIN ledger.users
              /\ ledger.users[signers[j].user_id] = signers[j]}

RECURSIVE LedgersOfLength(_)
LedgersOfLength(n) ==
    IF n = 1
    THEN LET with_alice ==
                 {ledger_register(LedgerNew(GenesisKey, timestamp, nonce), user) :
                     user \in CallerUsers, timestamp \in Timestamps, nonce \in Nonces}
         IN with_alice
                \cup {ledger_register(ledger, user) :
                         ledger \in with_alice, user \in ScenarioUsers \ CallerUsers}
    ELSE UNION {{ledger_add(ledger, payload, signers, timestamp, nonce) :
                    payload \in Payloads \ {""},
                    signers \in RegisteredSignerLists(ledger),
                    timestamp \in Timestamps, nonce \in Nonces} :
                ledger \in LedgersOfLength(n - 1)}

\* the genesis record alone, then one and two records appended
BuiltLedgers == LedgersOfLength(1) \cup LedgersOfLength(2) \cup LedgersOfLength(3)

\* The same records as they are when every stored record_hash is the hash
\* of the material verify_chain recomputes, and the signatures sign it
RECURSIVE Reseal(_)
Reseal(recs) ==
    IF recs = <<>> THEN <<>>
    ELSE LET n == Len(recs)
             head == Reseal(SubSeq(recs, 1, n - 1))
             linked == [recs[n] EXCEPT !.prev_hash =
                           IF n = 1 THEN GENESIS_PREV_HASH ELSE head[n - 1].record_hash]
             hash == Digest(VerifyMaterial(linked))
         IN Append(head, [linked EXCEPT !.record_hash = hash,
                                        !.signatures = SignAll(linked.signers, hash)])

ResealedLedgers == {[ledger EXCEPT !.records = Reseal(@)] : ledger \in BuiltLedgers}

\* ------------------------------------------------------------------------
\* Snapshot of a built ledger
\* ------------------------------------------------------------------------
SnapshotInit ==
    \E ledger \in BuiltLedgers :
        /\ records = ledger.records
        /\ users = ledger.users
        /\ verify_registry = ledger.verify_registry
        /\ file = AbsentFile
        /\ wal = EmptyWal
        /\ backup = AbsentFile
        /\ workflows = EmptyMap
        /\ result = [op |-> "built", origin |-> "api"]

SnapshotNext ==
    \/ \E order \in IterationOrders, now \in Timestamps : WriteLedger(order, now)
    \/ ReadAndVerify

SnapshotSpec == SnapshotInit /\ [][SnapshotNext]_vars

\* ------------------------------------------------------------------------
\* Tampering: one field of one record is overwritten (the fields are pub)
\* ------------------------------------------------------------------------
TamperPayloads == Payloads \cup {"evil"}
HashPool(recs) ==
    {GENESIS_PREV_HASH, "deadbeef"}
        \cup {Digest(p) : p \in TamperPayloads}
        \cup {recs[j].record_hash : j \in 1..Len(recs)}
SignaturePool(recs) ==
    {[key |-> k, data |-> h] :
        k \in Keys \cup {GenesisKey},
        h \in {"deadbeef"} \cup {recs[j].record_hash : j \in 1..Len(recs)}}

TamperInit ==
    \E origin \in {"api", "resealed"} :
        \E ledger \in (IF origin = "api" THEN BuiltLedgers ELSE ResealedLedgers) :
            /\ records = ledger.records
            /\ users = ledger.users
            /\ verify_registry = ledger.verify_registry
            /\ file = AbsentFile
            /\ wal = EmptyWal
            /\ backup = AbsentFile
            /\ workflows = EmptyMap
            /\ result = [op |-> "built", origin |-> origin]

Tampered(field, i, recs) ==
    /\ result.op = "built"
    /\ records' = recs
    /\ result' = [op |-> "tamper", origin |-> result.origin, field |-> field,
                  index |-> i,
                  ok_before |-> (verify_chain(records, verify_registry).status = "Ok")]
    /\ UNCHANGED <<users, verify_registry, diskVars, workflows>>

TamperPayload(i, v) ==
    /\ v # records[i + 1].payload
    /\ Tampered("payload", i, [records EXCEPT ![i + 1].payload = v])

TamperPayloadHash(i, v) ==
    /\ v # records[i + 1].payload_hash
    /\ Tampered("payload_hash", i, [records EXCEPT ![i + 1].payload_hash = v])

TamperRecordHash(i, v) ==
    /\ v # records[i + 1].record_hash
    /\ Tampered("record_hash", i, [records EXCEPT ![i + 1].record_hash = v])

TamperPrevHash(i, v) ==
    /\ v # records[i + 1].prev_hash
    /\ Tampered("prev_hash", i, [records EXCEPT ![i + 1].prev_hash = v])

TamperSignature(i, id, v) ==
    /\ id \in DOMAIN records[i + 1].signatures
    /\ v # records[i + 1].signatures[id]
    /\ Tampered("signature", i, [records EXCEPT ![i + 1].signatures[id] = v])

RecordIndices == 0..(Len(records) - 1)

TamperNext ==
    \/ \E i \in RecordIndices, v \in TamperPayloads : TamperPayload(i, v)
    \/ \E i \in RecordIndices, v \in HashPool(records) : TamperPayloadHash(i, v)
    \/ \E i \in RecordIndices, v \in HashPool(records) : TamperRecordHash(i, v)
    \/ \E i \in RecordIndices, v \in HashPool(records) : TamperPrevHash(i, v)
    \/ \E i \in RecordIndices, id \in UserIds, v \in SignaturePool(records) :
          TamperSignature(i, id, v)

TamperSpec == TamperInit /\ [][TamperNext]_vars

\* ------------------------------------------------------------------------
\* Write-ahead log: storage/append.rs
\* An entry of the file is the 49 header bytes, laid out field by field,
\* and the payload bytes.
\* ------------------------------------------------------------------------
AppendEntryNew(entry_type, data_size, checksum, now) ==
    [magic |-> APPEND_MAGIC, entry_type |-> entry_type, timestamp |-> now,
     data_size |-> data_size, checksum |-> checksum]

\* the header fields at their byte offsets
to_bytes(entry) ==
    [len |-> ENTRY_HEADER_SIZE,
     at0 |-> [len |-> 4, bytes |-> entry.magic],
     at4 |-> [len |-> 1, bytes |-> entry.entry_type % 2^8],
     at5 |-> [len |-> 8, le |-> entry.timestamp],
     at13 |-> [len |-> 4, le |-> entry.data_size],
     at17 |-> entry.checksum]

from_bytes(bytes) ==
    [magic |-> bytes.at0.bytes, entry_type |-> bytes.at4.bytes,
     timestamp |-> bytes.at5.le, data_size |-> bytes.at13.le,
     checksum |-> bytes.at17]

\* an append that writes the entry at the front of the file
append_entry_Prepend(w, entry_type, data_bytes, now) ==
    LET checksum == HexDecode(DigestBytes(data_bytes))
        entry == AppendEntryNew(entry_type, data_bytes.len, checksum, now)
    IN [wal |-> [w EXCEPT !.entries =
                    <<[header |-> to_bytes(entry), data |-> data_bytes]>> \o @],
        ret |-> Ok(TRUE)]

\* what append_record and append_user do with the serialized bytes
append_entry(w, entry_type, data_bytes, now) ==
    LET checksum_str == DigestBytes(data_bytes)
        checksum == TryIntoArray(HexDecode(checksum_str), CHECKSUM_SIZE)
        entry == AppendEntryNew(entry_type, data_bytes.len, checksum.value, now)
    IN IF checksum.status = "Err"
       THEN [wal |-> w, ret |-> Err("Serialization", "Checksum conversion failed")]
       ELSE [wal |-> [w EXCEPT !.entries =
                         Append(@, [header |-> to_bytes(entry), data |-> data_bytes])],
             ret |-> Ok(TRUE)]

append_record(w, record, order, now) ==
    append_entry(w, 1, RkyvToBytes(SerializableRecordFrom(record, order)), now)

append_user(w, user, now) ==
    append_entry(w, 2, RkyvToBytes(SerializableUserFrom(user)), now)

\* the loop of read_all_entries from entry i on; past the complete entries
\* it reads the tail: fewer bytes than a header end the loop, a header with
\* another magic ends the loop, a header whose payload is cut short is an
\* error of read_exact
RECURSIVE ReadEntries(_, _, _)
ReadEntries(w, i, entries) ==
    IF i > Len(w.entries)
    THEN IF w.tail.len < ENTRY_HEADER_SIZE
         THEN Ok(entries)
         ELSE LET entry == from_bytes(w.tail.header)
              IN IF entry.magic # APPEND_MAGIC
                 THEN Ok(entries)
                 ELSE Err("Io", "UnexpectedEof")
    ELSE LET entry == from_bytes(w.entries[i].header)
             data_buf == w.entries[i].data
             computed == TryIntoArray(HexDecode(DigestBytes(data_buf)), CHECKSUM_SIZE)
         IN IF entry.magic # APPEND_MAGIC
            THEN Ok(entries)
            ELSE IF computed.status = "Err"
            THEN Err("Deserialization", "Checksum conversion failed")
            ELSE IF computed.value # entry.checksum
            THEN Err("ChecksumMismatch", "")
            ELSE ReadEntries(w, i + 1, Append(entries, <<entry, data_buf>>))

\* a reader that leaves out the entries whose checksum does not match
read_all_entries_SkipCorrupt(w) ==
    LET good == SelectSeq(w.entries,
                          LAMBDA e : from_bytes(e.header).checksum
                                        = HexDecode(DigestBytes(e.data)))
    IN Ok([k \in 1..Len(good) |-> <<from_bytes(good[k].header), good[k].data>>])

read_all_entries(w) == ReadEntries(w, 1, <<>>)

\* a truncate that moves to the start of the file and keeps its length
truncate_SeekOnly(w) == w

truncate(w) == EmptyWal

\* ------------------------------------------------------------------------
\* An AppendLog opened beside a built ledger.  The process may be killed in
\* the middle of an append, bytes may be added to the file or changed in it
\* from outside; the log is followed up to its first fault: nothing is
\* appended behind a partial entry or behind garbage, and one entry at most
\* is changed.
\* ------------------------------------------------------------------------
RecordBytes(record, order) == RkyvToBytes(SerializableRecordFrom(record, order))
UserBytes(user) == RkyvToBytes(SerializableUserFrom(user))

\* where a killed append may stop: inside or between the header fields, at
\* the end of the header, inside the payload
CutPoints(data_bytes) ==
    {n \in {1, 4, 5, 13, 17, ENTRY_HEADER_SIZE - 1, ENTRY_HEADER_SIZE,
            ENTRY_HEADER_SIZE + 1, ENTRY_HEADER_SIZE + data_bytes.len - 1} :
        0 < n /\ n < ENTRY_HEADER_SIZE + data_bytes.len}

GarbageLens == {10, ENTRY_HEADER_SIZE}
GarbageMagics == {"JUNK", "0000"}
GarbageTail(n, magic) ==
    [len |-> n,
     header |-> to_bytes([magic |-> magic, entry_type |-> 0, timestamp |-> 0,
                          data_size |-> 0, checksum |-> HexDecode(DigestBytes([len |-> 0]))]),
     data |-> [len |-> 0]]

\* alice and bob registered, one record signed by both
WalLedgers ==
    {ledger \in LedgersOfLength(2) :
        /\ DOMAIN ledger.users = UserIds
        /\ Len(ledger.records[2].signers) = 2
        /\ {ledger.records[2].signers[j].user_id :
               j \in DOMAIN ledger.records[2].signers} = UserIds \ {GENESIS_USER_ID}}

WalInit ==
    \E ledger \in WalLedgers :
        /\ records = ledger.records
        /\ users = ledger.users
        /\ verify_registry = ledger.verify_registry
        /\ file = AbsentFile
        /\ wal = EmptyWal
        /\ backup = AbsentFile
        /\ workflows = EmptyMap
        /\ result = [op |-> "built", origin |-> "api"]

EntryIntact(e) ==
    from_bytes(e.header).checksum = HexDecode(DigestBytes(e.data))
WalClean ==
    /\ wal.tail = NoTail
    /\ \A k \in 1..Len(wal.entries) : EntryIntact(wal.entries[k])
WalWritable ==
    /\ WalClean
    /\ Len(wal.entries) < MaxWalEntries

AppendRecord(i, order, now) ==
    LET after == append_record(wal, records[i + 1], order, now)
    IN /\ WalWritable
       /\ wal' = after.wal
       /\ result' = [op |-> "append_record", entry_type |-> 1,
                     data |-> RecordBytes(records[i + 1], order), ret |-> after.ret]
       /\ UNCHANGED <<ledgerVars, file, backup, workflows>>

AppendUser(id, now) ==
    LET after == append_user(wal, users[id], now)
    IN /\ WalWritable
       /\ id \in DOMAIN users
       /\ wal' = after.wal
       /\ result' = [op |-> "append_user", entry_type |-> 2,
                     data |-> UserBytes(users[id]), ret |-> after.ret]
       /\ UNCHANGED <<ledgerVars, file, backup, workflows>>

\* the process is killed after n bytes of the entry have reached the file
Killed(entry_type, data_bytes, now, n) ==
    LET whole == append_entry(EmptyWal, entry_type, data_bytes, now).wal.entries[1]
    IN /\ WalWritable
       /\ n \in CutPoints(data_bytes)
       /\ wal' = [wal EXCEPT !.tail =
                     [len |-> n, header |-> whole.header, data |-> whole.data]]
       /\ result' = [op |-> "killed", entry_type |-> entry_type, written |-> n]
       /\ UNCHANGED <<ledgerVars, file, backup, workflows>>

KilledInAppendRecord(i, order, now, n) ==
    Killed(1, RecordBytes(records[i + 1], order), now, n)

KilledInAppendUser(id, now, n) ==
    /\ id \in DOMAIN users
    /\ Killed(2, UserBytes(users[id]), now, n)

AppendGarbage(n, magic) ==
    /\ WalClean
    /\ wal' = [wal EXCEPT !.tail = GarbageTail(n, magic)]
    /\ result' = [op |-> "garbage", written |-> n]
    /\ UNCHANGED <<ledgerVars, file, backup, workflows>>

FlipPayloadBit(k) ==
    /\ k \in 1..Len(wal.entries)
    /\ WalClean
    /\ wal' = [wal EXCEPT !.entries[k].data =
                  [len |-> @.len, rkyv |-> @.rkyv, flipped |-> TRUE]]
    /\ result' = [op |-> "corrupt", field |-> "payload", entry |-> k]
    /\ UNCHANGED <<ledgerVars, file, backup, workflows>>

AlterChecksum(k) ==
    /\ k \in 1..Len(wal.entries)
    /\ WalClean
    /\ wal' = [wal EXCEPT !.entries[k].header.at17 = HexDecode(DigestBytes([len |-> 0, altered |-> TRUE]))]
    /\ result' = [op |-> "corrupt", field |-> "checksum", entry |-> k]
    /\ UNCHANGED <<ledgerVars, file, backup, workflows>>

ReadAllEntries ==
    /\ result' = [op |-> "read_all_entries", ret |-> read_all_entries(wal)]
    /\ UNCHANGED <<ledgerVars, diskVars, workflows>>

Truncate ==
    /\ wal' = truncate(wal)
    /\ result' = [op |-> "truncate", held |-> Len(wal.entries), ret |-> Ok(TRUE)]
    /\ UNCHANGED <<ledgerVars, file, backup, workflows>>

WalNext ==
    \/ \E i \in RecordIndices, order \in IterationOrders, now \in Timestamps :
          AppendRecord(i, order, now)
    \/ \E id \in UserIds, now \in Timestamps : AppendUser(id, now)
    \/ \E i \in RecordIndices, order \in IterationOrders, now \in Timestamps :
          \E n \in CutPoints(RecordBytes(records[i + 1], order)) :
              KilledInAppendRecord(i, order, now, n)
    \/ \E id \in UserIds \cap DOMAIN users, now \in Timestamps :
          \E n \in CutPoints(UserBytes(users[id])) : KilledInAppendUser(id, now, n)
    \/ \E n \in GarbageLens, magic \in GarbageMagics : AppendGarbage(n, magic)
    \/ \E k \in 1..MaxWalEntries : FlipPayloadBit(k)
    \/ \E k \in 1..MaxWalEntries : AlterChecksum(k)
    \/ ReadAllEntries
    \/ Truncate

WalSpec == WalInit /\ [][WalNext]_vars

\* ------------------------------------------------------------------------
\* Recovery and compaction: storage/recovery.rs
\* ------------------------------------------------------------------------
\* User::new draws a new key pair: the recovery call with seed s gives the
\* user it creates for an id the key pair s + IdNumber[id]
RecoverySeeds == {10, 20}
IdNumber ==
    CHOOSE f \in [UserIds -> 1..Cardinality(UserIds)] :
        \A a, b \in UserIds : a # b => f[a] # f[b]
FreshKey(seed, id) == seed + IdNumber[id]
RecoveredUser(ser_user, seed) ==
    [UserNew(ser_user.user_id, FreshKey(seed, ser_user.user_id))
        EXCEPT !.roles = ser_user.roles]

try_parse_signature(sig_bytes) ==
    IF sig_bytes.len = SIGNATURE_SIZE THEN Ok(sig_bytes.sig) ELSE Err("None", "")

\* the signatures that parse, keyed by user id, a later pair replacing an
\* earlier one of the same id
RECURSIVE ParseSignatures(_)
ParseSignatures(pairs) ==
    IF pairs = <<>> THEN EmptyMap
    ELSE LET n == Len(pairs)
             before == ParseSignatures(SubSeq(pairs, 1, n - 1))
             sig == try_parse_signature(pairs[n][2])
         IN IF sig.status = "Ok" THEN MapInsert(before, pairs[n][1], sig.value)
            ELSE before

\* signer_ids.iter().filter_map(|id| ledger.users.get(id).cloned())
KnownSigners(signer_ids, us) ==
    LET known == SelectSeq(signer_ids, LAMBDA id : id \in DOMAIN us)
    IN [j \in 1..Len(known) |-> us[known[j]]]

RebuiltRecord(ser_record, us) ==
    [index |-> ser_record.index, payload |-> ser_record.payload,
     payload_hash |-> ser_record.payload_hash,
     signers |-> KnownSigners(ser_record.signer_ids, us),
     signatures |-> ParseSignatures(ser_record.signatures),
     prev_hash |-> ser_record.prev_hash, record_hash |-> ser_record.record_hash,
     timestamp |-> ser_record.timestamp, nonce |-> ser_record.nonce]

\* records.sort_by(|a, b| a.index.cmp(&b.index)): a stable sort
RECURSIVE SortByIndex(_)
SortByIndex(recs) ==
    IF recs = <<>> THEN <<>>
    ELSE LET n == Len(recs)
             sorted == SortByIndex(SubSeq(recs, 1, n - 1))
             keep == SelectSeq(sorted, LAMBDA r : r.index <= recs[n].index)
             move == SelectSeq(sorted, LAMBDA r : r.index > recs[n].index)
         IN keep \o <<recs[n]>> \o move

RECURSIVE RebuildUsers(_, _, _)
RebuildUsers(ser_users, seed, ledger) ==
    IF ser_users = <<>> THEN Ok(ledger)
    ELSE LET ser_user == Head(ser_users)
             key_bytes == TryIntoArray(ser_user.verifying_key_bytes, KEY_SIZE)
         IN IF key_bytes.status = "Err"
            THEN Err("Deserialization", "Invalid verifying key length")
            ELSE RebuildUsers(Tail(ser_users), seed,
                    [ledger EXCEPT
                        !.users = MapInsert(@, ser_user.user_id,
                                            RecoveredUser(ser_user, seed)),
                        !.verify_registry = MapInsert(@, ser_user.user_id,
                                                      key_bytes.value.key)])

RECURSIVE RebuildRecords(_, _)
RebuildRecords(ser_records, ledger) ==
    IF ser_records = <<>> THEN Ok(ledger)
    ELSE LET ser_record == Head(ser_records)
             record == RebuiltRecord(ser_record, ledger.users)
         IN IF Len(record.signers) # Len(ser_record.signer_ids)
            THEN Err("Deserialization",
                     "Missing signers for record " \o ToString(ser_record.index))
            ELSE IF Cardinality(DOMAIN record.signatures) # Len(ser_record.signatures)
            THEN Err("Deserialization",
                     "Invalid signatures for record " \o ToString(ser_record.index))
            ELSE RebuildRecords(Tail(ser_records),
                                [ledger EXCEPT !.records = Append(@, record)])

reconstruct_from_body(body, seed) ==
    LET empty == [records |-> <<>>, users |-> EmptyMap, verify_registry |-> EmptyMap]
        with_users == RebuildUsers(body.users, seed, empty)
        with_records == RebuildRecords(body.records, with_users.value)
    IN IF with_users.status = "Err" THEN with_users
       ELSE IF with_records.status = "Err" THEN with_records
       ELSE Ok([with_records.value EXCEPT !.records = SortByIndex(@)])

\* a replay that puts the entry in the place of a record with its index
replay_entry_Overwrites(ledger, entry, data, seed) ==
    IF entry.entry_type = 1
    THEN IF "signer_ids" \notin DOMAIN data.rkyv
         THEN Err("Deserialization", "Failed to access WAL record")
         ELSE LET record == RebuiltRecord(data.rkyv, ledger.users)
              IN IF record.signers = <<>>
                 THEN Ok(ledger)
                 ELSE IF \E j \in 1..Len(ledger.records) :
                            ledger.records[j].index = record.index
                 THEN Ok([ledger EXCEPT !.records =
                            [j \in 1..Len(@) |-> IF @[j].index = record.index
                                                 THEN record ELSE @[j]]])
                 ELSE Ok([ledger EXCEPT !.records = Append(@, record)])
    ELSE IF entry.entry_type = 2
    THEN IF "verifying_key_bytes" \notin DOMAIN data.rkyv
         THEN Err("Deserialization", "Failed to access WAL user")
         ELSE LET ser_user == data.rkyv
                  key_bytes == TryIntoArray(ser_user.verifying_key_bytes, KEY_SIZE)
              IN IF key_bytes.status = "Err"
                 THEN Err("Deserialization", "Invalid verifying key length")
                 ELSE IF ser_user.user_id \in DOMAIN ledger.verify_registry
                 THEN Ok(ledger)
                 ELSE Ok([ledger EXCEPT
                            !.users = MapInsert(@, ser_user.user_id,
                                                RecoveredUser(ser_user, seed)),
                            !.verify_registry = MapInsert(@, ser_user.user_id,
                                                          key_bytes.value.key)])
    ELSE Err("Deserialization", "Unknown entry type: " \o ToString(entry.entry_type))

\* a replay in which a later user entry replaces the key of its id
replay_entry_Rebinds(ledger, entry, data, seed) ==
    IF entry.entry_type = 1
    THEN IF "signer_ids" \notin DOMAIN data.rkyv
         THEN Err("Deserialization", "Failed to access WAL record")
         ELSE LET record == RebuiltRecord(data.rkyv, ledger.users)
              IN IF record.signers = <<>>
                 THEN Ok(ledger)
                 ELSE IF \E j \in 1..Len(ledger.records) :
                            ledger.records[j].index = record.index
                 THEN Ok(ledger)
                 ELSE Ok([ledger EXCEPT !.records = Append(@, record)])
    ELSE IF entry.entry_type = 2
    THEN IF "verifying_key_bytes" \notin DOMAIN data.rkyv
         THEN Err("Deserialization", "Failed to access WAL user")
         ELSE LET ser_user == data.rkyv
                  key_bytes == TryIntoArray(ser_user.verifying_key_bytes, KEY_SIZE)
              IN IF key_bytes.status = "Err"
                 THEN Err("Deserialization", "Invalid verifying key length")
                 ELSE Ok([ledger EXCEPT
                            !.users = MapInsert(@, ser_user.user_id,
                                                RecoveredUser(ser_user, seed)),
                            !.verify_registry = MapInsert(@, ser_user.user_id,
                                                          key_bytes.value.key)])
    ELSE Err("Deserialization", "Unknown entry type: " \o ToString(entry.entry_type))

\* one iteration of the loop of replay_wal: the ledger after the entry, or
\* the error that ends the replay
replay_entry(ledger, entry, data, seed) ==
    IF entry.entry_type = 1
    THEN IF "signer_ids" \notin DOMAIN data.rkyv
         THEN Err("Deserialization", "Failed to access WAL record")
         ELSE LET record == RebuiltRecord(data.rkyv, ledger.users)
              IN IF record.signers = <<>>
                 THEN Ok(ledger)
                 ELSE IF \E j \in 1..Len(ledger.records) :
                            ledger.records[j].index = record.index
                 THEN Ok(ledger)
                 ELSE Ok([ledger EXCEPT !.records = Append(@, record)])
    ELSE IF entry.entry_type = 2
    THEN IF "verifying_key_bytes" \notin DOMAIN data.rkyv
         THEN Err("Deserialization", "Failed to access WAL user")
         ELSE LET ser_user == data.rkyv
                  key_bytes == TryIntoArray(ser_user.verifying_key_bytes, KEY_SIZE)
              IN IF key_bytes.status = "Err"
                 THEN Err("Deserialization", "Invalid verifying key length")
                 ELSE IF ser_user.user_id \in DOMAIN ledger.verify_registry
                 THEN Ok(ledger)
                 ELSE Ok([ledger EXCEPT
                            !.users = MapInsert(@, ser_user.user_id,
                                                RecoveredUser(ser_user, seed)),
                            !.verify_registry = MapInsert(@, ser_user.user_id,
                                                          key_bytes.value.key)])
    ELSE Err("Deserialization", "Unknown entry type: " \o ToString(entry.entry_type))

RECURSIVE replay_wal(_, _, _)
replay_wal(ledger, entries, seed) ==
    IF entries = <<>> THEN Ok(ledger)
    ELSE LET after == replay_entry(ledger, Head(entries)[1], Head(entries)[2], seed)
         IN IF after.status = "Err" THEN after
            ELSE replay_wal(after.value, Tail(entries), seed)

recover_from_wal(w, seed) ==
    LET entries == read_all_entries(w)
        new == LedgerNew(FreshKey(seed, GENESIS_USER_ID),
                         CHOOSE t \in Timestamps : TRUE, CHOOSE n \in Nonces : TRUE)
        replayed == replay_wal([new EXCEPT !.records = <<>>], entries.value, seed)
    IN IF entries.status = "Err" THEN entries
       ELSE IF entries.value = <<>>
       THEN Err("ValidationFailed",
                "Cannot recover: both main DB and WAL are corrupted/empty")
       ELSE IF replayed.status = "Err" THEN replayed
       ELSE Ok([replayed.value EXCEPT !.records = SortByIndex(@)])

\* a compaction that removes the backup also when writing the snapshot fails
compact_DropsBackup(f, w, b, ledger, order, now, truncates) ==
    LET written == write_ledger(ledger.records, ledger.users, order, now)
    IN [file |-> written.file, backup |-> AbsentFile, ret |-> written.ret,
        wal |-> IF written.ret.status = "Ok" /\ truncates THEN truncate(w) ELSE w]

\* the files after compact and what it returns: 1 copy the snapshot to the
\* backup, 2 write the new snapshot, 3 truncate the WAL, 4 delete the backup.
\* truncates: whether opening and truncating the WAL succeeds; when it does
\* not, the error is dropped and step 4 follows
compact(f, w, b, ledger, order, now, truncates) ==
    LET copied == IF f # AbsentFile THEN f ELSE b
        written == write_ledger(ledger.records, ledger.users, order, now)
    IN IF written.ret.status = "Err"
       THEN [file |-> written.file, wal |-> w, backup |-> copied, ret |-> written.ret]
       ELSE [file |-> written.file, wal |-> IF truncates THEN truncate(w) ELSE w,
             backup |-> AbsentFile, ret |-> Ok(TRUE)]

\* ledger.verify_chain().map_err(..)
verified(ledger) ==
    LET chain == verify_chain(ledger.records, ledger.verify_registry)
    IN IF chain.status = "Err" THEN Err("ValidationFailed", chain.msg) ELSE Ok(ledger)

\* what recover_ledger does with the result of reading the snapshot: the
\* files afterwards, what it returns, and whether it went by the snapshot,
\* by the WAL alone, or returned the error of the snapshot read
recover_after_read(read, f, w, b, seed, order, now, truncates) ==
    LET unchanged == [file |-> f, wal |-> w, backup |-> b]
        rebuilt == reconstruct_from_body(read.value.body, seed)
        entries == read_all_entries(w)
        replayed == replay_wal(rebuilt.value, entries.value, seed)
        compacted == compact(f, w, b, replayed.value, order, now, truncates)
    IN IF read.status = "Ok"
       THEN IF rebuilt.status = "Err"
            THEN unchanged @@ [path |-> "snapshot", ret |-> rebuilt]
            ELSE IF entries.status = "Ok" /\ entries.value # <<>>
            THEN IF replayed.status = "Err"
                 THEN unchanged @@ [path |-> "snapshot", ret |-> replayed]
                 ELSE [file |-> compacted.file, wal |-> compacted.wal,
                       backup |-> compacted.backup, path |-> "snapshot",
                       ret |-> IF compacted.ret.status = "Err" THEN compacted.ret
                               ELSE verified(replayed.value)]
            ELSE unchanged @@ [path |-> "snapshot", ret |-> verified(rebuilt.value)]
       ELSE IF read = Err("ChecksumMismatch", "")
       THEN unchanged @@ [path |-> "wal only", ret |-> recover_from_wal(w, seed)]
       ELSE unchanged @@ [path |-> "read error", ret |-> read]

\* a recovery that falls back to the WAL on every error of the snapshot read
recover_ledger_FallsBackOnAnyError(f, w, b, seed, order, now, truncates) ==
    LET read == open_and_verify(f)
    IN recover_after_read(IF read.status = "Err" THEN Err("ChecksumMismatch", "")
                          ELSE read,
                          f, w, b, seed, order, now, truncates)

recover_ledger(f, w, b, seed, order, now, truncates) ==
    recover_after_read(open_and_verify(f), f, w, b, seed, order, now, truncates)

\* ------------------------------------------------------------------------
\* A database path across process runs.  The snapshot file found at the
\* path is an input: none, one that a write left empty, one that
\* read_and_verify accepts, or such a file with one part changed.
\* ------------------------------------------------------------------------
SnapshotFileOf(ledger, order, now) ==
    LET body_bytes == RkyvToBytes(DatabaseBodyOf(ledger.records, ledger.users, order))
        footer_offset == HEADER_SIZE + body_bytes.len
        header == [DatabaseHeaderNew(Len(ledger.records), HEADER_SIZE, footer_offset, now)
                      EXCEPT !.checksum = HexDecode(DigestBytes(body_bytes))]
    IN [header |-> header, body |-> body_bytes,
        footer |-> [len |-> FOOTER_SIZE,
                    rkyv |-> [total_file_size |-> footer_offset + FOOTER_SIZE]]]

SnapshotFaults ==
    {"none", "missing", "empty", "magic", "version", "offsets", "checksum",
     "body", "signers"}

FaultySnapshot(snapshot, fault) ==
    LET bad_body == [len |-> snapshot.body.len, rkyv |-> [malformed |-> TRUE]]
        no_users == [len |-> snapshot.body.len,
                     rkyv |-> [snapshot.body.rkyv EXCEPT !.users = <<>>]]
    IN CASE fault = "none" -> snapshot
         [] fault = "missing" -> AbsentFile
         [] fault = "empty" -> EmptyFile
         [] fault = "magic" -> [snapshot EXCEPT !.header.magic = "XXXX"]
         [] fault = "version" -> [snapshot EXCEPT !.header.version_major = 2]
         [] fault = "offsets" ->
               [snapshot EXCEPT !.header.footer_offset = FileLen(snapshot) + 1]
         [] fault = "checksum" ->
               [snapshot EXCEPT !.header.checksum =
                   HexDecode(DigestBytes([len |-> 0, altered |-> TRUE]))]
         [] fault = "body" ->
               [snapshot EXCEPT !.body = bad_body,
                                !.header.checksum = HexDecode(DigestBytes(bad_body))]
         [] fault = "signers" ->
               [snapshot EXCEPT !.body = no_users,
                                !.header.checksum = HexDecode(DigestBytes(no_users))]

\* the ledger of the process and the files at its path: the ledger was built
\* through the API from Ledger::new, or is such a ledger resealed
RecoveryLedgers ==
    {ledger \in LedgersOfLength(1) \cup WalLedgers :
        ledger.users["alice"] = UserNew("alice", 1)}
\* the order of a HashMap in which the ids come as they were inserted
RecoveryOrders ==
    {order \in IterationOrders : order[1] = GENESIS_USER_ID /\ order[2] = "alice"}
\* a resealed ledger is followed from a sound snapshot and from one whose
\* checksum fails
RecoveryInputs ==
    ({"api"} \X SnapshotFaults) \cup ({"resealed"} \X {"none", "checksum"})

RecoveryInit ==
    \E input \in RecoveryInputs, order \in RecoveryOrders, now \in Timestamps :
        \E ledger \in (IF input[1] = "api" THEN RecoveryLedgers
                       ELSE {[l EXCEPT !.records = Reseal(@)] : l \in RecoveryLedgers}) :
            /\ records = ledger.records
            /\ users = ledger.users
            /\ verify_registry = ledger.verify_registry
            /\ file = FaultySnapshot(SnapshotFileOf(ledger, order, now), input[2])
            /\ wal = EmptyWal
            /\ backup = AbsentFile
            /\ workflows = EmptyMap
            /\ result = [op |-> "built", origin |-> input[1]]

\* the user objects a caller may sign with: their keys are the registered ones
HolderSignerLists ==
    {signers \in ScenarioSignerLists :
        /\ signers # <<>>
        /\ \A j, k \in 1..Len(signers) : j # k => signers[j] # signers[k]
        /\ \A j \in 1..Len(signers) :
              /\ signers[j].user_id \in DOMAIN verify_registry
              /\ verify_registry[signers[j].user_id] = signers[j].verifying_key}

\* LedgerManager::register_user: the ledger, then the WAL; written says
\* whether opening the log and writing the entry succeed
ManagerRegisterUser(user, now, written) ==
    LET after == register_user(users, verify_registry, user)
        logged == append_user(wal, user, now)
    IN /\ WalWritable
       /\ user.user_id \notin DOMAIN verify_registry
       /\ users' = after.users
       /\ verify_registry' = after.verify_registry
       /\ wal' = IF written THEN logged.wal ELSE wal
       /\ result' = [op |-> "manager_register_user",
                     ret |-> IF written THEN logged.ret
                             ELSE Err("Io", "Failed to write user to WAL")]
       /\ UNCHANGED <<records, file, backup, workflows>>

\* LedgerManager::append_record: the ledger, then the WAL
ManagerAppendRecord(payload, signers, timestamp, nonce, order, now, written) ==
    LET after == add_record(records, verify_registry, payload, signers, timestamp, nonce)
        logged == append_record(wal, after.records[Len(after.records)], order, now)
    IN /\ WalWritable
       /\ Len(records) < MaxRecords
       /\ records' = after.records
       /\ wal' = IF after.ret.status = "Ok" /\ written THEN logged.wal ELSE wal
       /\ result' = [op |-> "manager_append_record",
                     ret |-> IF after.ret.status = "Err"
                             THEN Err("Failed to add record to ledger", after.ret.kind)
                             ELSE IF written THEN after.ret
                             ELSE Err("Io", "Failed to write record to WAL")]
       /\ UNCHANGED <<users, verify_registry, file, backup, workflows>>

Compact(order, now, truncates) ==
    LET L == [records |-> records, users |-> users, verify_registry |-> verify_registry]
        after == compact(file, wal, backup, L, order, now, truncates)
    IN /\ file' = after.file
       /\ wal' = after.wal
       /\ backup' = after.backup
       /\ UNCHANGED workflows
       /\ result' = [op |-> "compact", ret |-> after.ret]
       /\ UNCHANGED ledgerVars

\* recover_ledger in a new process; the ledger it returns is the ledger of
\* the process from then on
Recover(seed, order, now, truncates) ==
    LET after == recover_ledger(file, wal, backup, seed, order, now, truncates)
    IN /\ file' = after.file
       /\ wal' = after.wal
       /\ backup' = after.backup
       /\ UNCHANGED workflows
       /\ result' = [op |-> "recover_ledger", path |-> after.path,
                     ret |-> IF after.ret.status = "Ok"
                             THEN Ok(length(after.ret.value.records))
                             ELSE after.ret]
       /\ IF after.ret.status = "Ok"
          THEN /\ records' = after.ret.value.records
               /\ users' = after.ret.value.users
               /\ verify_registry' = after.ret.value.verify_registry
          ELSE UNCHANGED ledgerVars

RecoveryNext ==
    \/ \E user \in ScenarioUsers, now \in Timestamps : ManagerRegisterUser(user, now, TRUE)
    \/ \E payload \in Payloads, signers \in HolderSignerLists,
          timestamp \in Timestamps, nonce \in Nonces,
          order \in RecoveryOrders, now \in Timestamps :
            ManagerAppendRecord(payload, signers, timestamp, nonce, order, now, TRUE)
    \/ \E n \in GarbageLens : AppendGarbage(n, "JUNK")
    \/ \E order \in RecoveryOrders, now \in Timestamps, truncates \in BOOLEAN :
          Compact(order, now, truncates)
    \/ \E seed \in RecoverySeeds, order \in RecoveryOrders, now \in Timestamps,
          truncates \in BOOLEAN :
            Recover(seed, order, now, truncates)

RecoverySpec == RecoveryInit /\ [][RecoveryNext]_vars

\* ========================================================================
\* Properties
\* ========================================================================
SignersAreRegisteredObjects ==
    \A j \in 1..Len(records) : \A k \in 1..Len(records[j].signers) :
        LET signer == records[j].signers[k]
        IN /\ signer.user_id \in DOMAIN users
           /\ users[signer.user_id] = signer
           /\ verify_registry[signer.user_id] = signer.verifying_key

\* C1: every ledger built from Ledger::new() by register_user and successful
\* add_record calls, the signers being the registered user objects, passes
\* verify_chain().
C1_BuiltLedgerVerifies ==
    SignersAreRegisteredObjects => verify_chain(records, verify_registry) = Ok(TRUE)

\* C2: when verify_chain() succeeded on a ledger and then the payload, the
\* payload_hash, the record_hash, the prev_hash or a signature of one record is
\* changed to a different value, verify_chain() returns an error.
C2_TamperDetected ==
    (result.op = "tamper" /\ result.ok_before)
        => verify_chain(records, verify_registry).status = "Err"

C2_Witness ==
    /\ result.op = "tamper"
    /\ result.ok_before
    /\ result.field = "payload"
    /\ result.index = 1
    /\ Len(records) = 3

\* C3: on a ledger built by register_user and add_record in which only
\* records[1].payload was overwritten, verify_chain() returns
\* ChainValidation("Payload tampered at 1"): no failure is reported for index 0.
C3_ReportsPayloadTamperedAt1 ==
    (/\ result.op = "tamper"
     /\ result.origin = "api"
     /\ result.field = "payload"
     /\ result.index = 1)
        => verify_chain(records, verify_registry)
               = Err("ChainValidation", "Payload tampered at 1")

\* C4: records[0].prev_hash is "00000000" and every later record's prev_hash
\* is the record_hash of the record before it.
C4_ChainLinked ==
    /\ records[1].prev_hash = GENESIS_PREV_HASH
    /\ \A j \in 2..Len(records) : records[j].prev_hash = records[j - 1].record_hash

C4_Witness ==
    /\ Len(records) = 3
    /\ records[3].prev_hash = records[2].record_hash
    /\ records[2].record_hash # records[1].record_hash

\* C5: records[i].index = i for all i; Ledger::new() has length 1 with the
\* genesis record at index 0; each successful add_record returns the previous
\* length as the new index and makes the ledger one record longer.
IndexDense == \A j \in 1..Len(records) : records[j].index = j - 1

AddReturnsPreviousLength ==
    (result'.op = "add_record" /\ result'.ret.status = "Ok")
        => /\ result'.ret.value = length(records)
           /\ length(records') = length(records) + 1

C5_IndicesContiguous ==
    /\ (result.op = "new" => length(records) = 1 /\ records[1].index = 0)
    /\ []IndexDense
    /\ [][AddReturnsPreviousLength]_vars

C5_Witness ==
    /\ result.op = "add_record"
    /\ result.ret = Ok(2)
    /\ length(records) = 3

\* C6: add_record with a signer whose user_id is not in the verify-registry
\* returns UnregistedUser and changes neither records, users nor
\* verify_registry.
C6_UnregisteredSignerRejected ==
    [][(/\ result'.op = "add_record"
        /\ \E j \in 1..Len(result'.signers) :
              result'.signers[j].user_id \notin DOMAIN verify_registry)
          => (/\ result'.ret = Err("UnregistedUser", "")
              /\ UNCHANGED ledgerVars)]_vars

C6_Witness ==
    /\ result.op = "add_record"
    /\ result.ret = Err("UnregistedUser", "")
    /\ result.payload = ""
    /\ Len(result.signers) = 2

\* C7 as stated: add_record with a zero-length payload returns EmptyPayload
\* and leaves the ledger unchanged, also when a signer is unregistered.
C7_EmptyPayloadFirst ==
    [][(result'.op = "add_record" /\ result'.payload = "")
          => (/\ result'.ret = Err("EmptyPayload", "")
              /\ UNCHANGED ledgerVars)]_vars

\* C7 as amended: add_record with a zero-length payload leaves the ledger
\* unchanged and returns EmptyPayload when every signer is registered,
\* UnregistedUser when one is not.
C7_EmptyPayloadAfterSigners ==
    [][(result'.op = "add_record" /\ result'.payload = "")
          => (/\ UNCHANGED ledgerVars
              /\ result'.ret =
                   IF \E j \in 1..Len(result'.signers) :
                         result'.signers[j].user_id \notin DOMAIN verify_registry
                   THEN Err("UnregistedUser", "")
                   ELSE Err("EmptyPayload", ""))]_vars

C7_Witness ==
    /\ result.op = "add_record"
    /\ result.payload = ""
    /\ result.ret = Err("EmptyPayload", "")
    /\ result.signers # <<>>

\* C8: add_record with a non-empty payload and no signers returns NoSigners,
\* and no record of the ledger has an empty signers list.
C8_NoSignersRejected ==
    /\ (result.op = "add_record" /\ result.payload # "" /\ result.signers = <<>>)
          => result.ret = Err("NoSigners", "")
    /\ \A j \in 1..Len(records) : records[j].signers # <<>>

\* C9: register_user of an id that is registered under a different verifying
\* key is rejected with AlreadyRegistered and changes nothing; with the same
\* key it changes nothing: the key bound to a user_id never changes.
C9_KeyNeverRebound ==
    [][/\ \A id \in DOMAIN verify_registry :
             id \in DOMAIN verify_registry' /\ verify_registry'[id] = verify_registry[id]
       /\ (/\ result'.op = "register_user"
           /\ result'.user.user_id \in DOMAIN verify_registry
           /\ verify_registry[result'.user.user_id] # result'.user.verifying_key)
             => result'.ret = Err("AlreadyRegistered", "")]_vars

\* C10: write_ledger of a built ledger succeeds, and read_and_verify of the
\* written file succeeds with record_count = length() and a body holding the
\* records and users of the ledger.
C10_SnapshotRoundTrip ==
    result.op = "write_ledger"
        => /\ result.ret.status = "Ok"
           /\ LET read == open_and_verify(file)
              IN /\ read.status = "Ok"
                 /\ read.value.header.record_count = length(records)
                 /\ \E order \in IterationOrders :
                       read.value.body.records =
                           DatabaseBodyOf(records, users, order).records
                 /\ {read.value.body.users[j] : j \in DOMAIN read.value.body.users}
                       = {SerializableUserFrom(users[id]) : id \in DOMAIN users}

\* C11: every successful append_record or append_user adds exactly one entry
\* at the end of what read_all_entries() returns: the entries returned before
\* stay, in their order, and the new last entry has the entry_type of the call
\* (1 record, 2 user) and the payload bytes the call wrote; a new log has none.
C11_WalRoundTrip ==
    /\ [](result.op = "built" => read_all_entries(wal) = Ok(<<>>))
    /\ [][(result'.op \in {"append_record", "append_user"} /\ result'.ret = Ok(TRUE))
            => LET before == read_all_entries(wal)
                   after == read_all_entries(wal')
                   n == Len(before.value)
               IN /\ before.status = "Ok"
                  /\ after.status = "Ok"
                  /\ Len(after.value) = n + 1
                  /\ SubSeq(after.value, 1, n) = before.value
                  /\ after.value[n + 1][1].entry_type = result'.entry_type
                  /\ after.value[n + 1][1].entry_type
                        = (IF result'.op = "append_record" THEN 1 ELSE 2)
                  /\ after.value[n + 1][2] = result'.data]_vars

\* a user entry, then a record entry, read back in that order
C11_Witness ==
    /\ result.op = "read_all_entries"
    /\ result.ret.status = "Ok"
    /\ Len(result.ret.value) >= 2
    /\ result.ret.value[1][1].entry_type = 2
    /\ result.ret.value[2][1].entry_type = 1
    /\ result.ret.value[2][2] = wal.entries[2].data

\* C12: when the process was killed inside an append, at any byte of the
\* entry header or of the entry payload, read_all_entries() returns without
\* error exactly the complete entries before the partial one.
C12_PartialTailDiscarded ==
    result.op = "killed"
        => /\ read_all_entries(wal).status = "Ok"
           /\ read_all_entries(wal) = read_all_entries([wal EXCEPT !.tail = NoTail])

\* C13: when the payload bytes of an entry are not the bytes checksummed at
\* append time, or its stored checksum was altered, read_all_entries()
\* returns ChecksumMismatch.
C13_ChecksumMismatch ==
    (\E k \in 1..Len(wal.entries) : ~EntryIntact(wal.entries[k]))
        => /\ read_all_entries(wal) = Err("ChecksumMismatch", "")
           /\ result.op = "read_all_entries"
                 => result.ret = Err("ChecksumMismatch", "")

\* the second entry's payload was changed and the log was read
C13_Witness ==
    /\ result.op = "read_all_entries"
    /\ result.ret = Err("ChecksumMismatch", "")
    /\ Len(wal.entries) >= 2
    /\ EntryIntact(wal.entries[1])
    /\ "flipped" \in DOMAIN wal.entries[2].data

\* what two equal ledgers share: of every record the index, payload, hashes,
\* signer ids, signatures, timestamp and nonce, and the key of every user_id
RecordView(r) ==
    [index |-> r.index, payload |-> r.payload, payload_hash |-> r.payload_hash,
     prev_hash |-> r.prev_hash, record_hash |-> r.record_hash,
     signer_ids |-> [j \in 1..Len(r.signers) |-> r.signers[j].user_id],
     signatures |-> r.signatures, timestamp |-> r.timestamp, nonce |-> r.nonce]
SameLedger(a, b) ==
    /\ Len(a.records) = Len(b.records)
    /\ \A j \in 1..Len(a.records) : RecordView(a.records[j]) = RecordView(b.records[j])
    /\ a.verify_registry = b.verify_registry
NoDuplicateIndex(recs) ==
    \A j, k \in 1..Len(recs) : j # k => recs[j].index # recs[k].index
SnapshotSound(f) ==
    /\ open_and_verify(f).status = "Ok"
    /\ reconstruct_from_body(open_and_verify(f).value.body,
                             CHOOSE seed \in RecoverySeeds : TRUE).status = "Ok"
RecoveryInputsOfCall == RecoverySeeds \X RecoveryOrders \X Timestamps \X BOOLEAN
RecoverNow(in) == recover_ledger(file, wal, backup, in[1], in[2], in[3], in[4])

C15_RecoveryIdempotent ==
    [][(/\ result'.op = "recover_ledger"
        /\ SnapshotSound(file)
        /\ read_all_entries(wal).status = "Ok"
        /\ read_all_entries(wal).value # <<>>)
          => /\ result'.ret.status = "Ok"
             /\ NoDuplicateIndex(records')
             /\ \A in \in RecoveryInputsOfCall :
                   LET again == recover_ledger(file', wal', backup',
                                               in[1], in[2], in[3], in[4])
                   IN /\ again.ret.status = "Ok"
                      /\ SameLedger(again.ret.value,
                                    [records |-> records',
                                     verify_registry |-> verify_registry'])]_vars

\* C16: with a sound snapshot on disk and a WAL that holds one user
\* registration and one record appended after it, recover_ledger succeeds,
\* returns a ledger that contains the record of the WAL, and leaves the WAL
\* without entries.
C16_WalReplayedOnReopen ==
    [][(/\ result'.op = "recover_ledger"
        /\ SnapshotSound(file)
        /\ wal.tail = NoTail
        /\ Len(wal.entries) = 2
        /\ from_bytes(wal.entries[1].header).entry_type = 2
        /\ from_bytes(wal.entries[2].header).entry_type = 1)
          => /\ result'.ret.status = "Ok"
             /\ \E j \in 1..Len(records') :
                   records'[j].record_hash = wal.entries[2].data.rkyv.record_hash
             /\ read_all_entries(wal') = Ok(<<>>)]_vars

\* C17: every ledger that recover_ledger returns passes verify_chain().
C17_RecoveredLedgerVerified ==
    (result.op = "recover_ledger" /\ result.ret.status = "Ok")
        => verify_chain(records, verify_registry) = Ok(TRUE)

\* C18: recover_ledger goes by the WAL alone exactly when reading the snapshot
\* gives ChecksumMismatch; the ledger it then returns has a freshly created
\* GENESIS user and only records that were replayed from the WAL, in index
\* order, and the files are as before.  Every other error of the snapshot
\* read is returned unchanged, and neither the files nor the ledger of the
\* caller change.
C18_FallbackOnChecksumMismatch ==
    [][result'.op = "recover_ledger"
          => LET read == open_and_verify(file)
                 mismatch == read = Err("ChecksumMismatch", "")
             IN /\ (result'.path = "wal only") <=> mismatch
                /\ (read.status = "Err" /\ ~mismatch)
                      => /\ result'.ret = read
                         /\ read.kind \in {"InvalidMagic", "UnsupportedVersion",
                                           "Serialization", "Deserialization", "Io"}
                         /\ UNCHANGED <<ledgerVars, diskVars>>
                /\ (mismatch /\ result'.ret.status = "Ok")
                      => /\ \E seed \in RecoverySeeds :
                               /\ users'[GENESIS_USER_ID]
                                     = UserNew(GENESIS_USER_ID,
                                               FreshKey(seed, GENESIS_USER_ID))
                               /\ verify_registry'[GENESIS_USER_ID]
                                     = VerifyingKeyOf(FreshKey(seed, GENESIS_USER_ID))
                         /\ \A j \in 1..Len(records') :
                               \E k \in 1..Len(wal.entries) :
                                  /\ from_bytes(wal.entries[k].header).entry_type = 1
                                  /\ wal.entries[k].data.rkyv.record_hash
                                        = records'[j].record_hash
                         /\ \A j, k \in 1..Len(records') :
                               j < k => records'[j].index < records'[k].index
                         /\ UNCHANGED diskVars]_vars
C18_Witness ==
    /\ result.op = "recover_ledger"
    /\ result.path = "wal only"
    /\ result.ret.status = "Ok"
    /\ Len(records) >= 1
    /\ wal.entries # <<>>

\* C19: when bytes that do not start with the APND magic follow the last
\* complete entry of the WAL, read_all_entries() returns the entries before
\* them without error, and recover_ledger on a sound snapshot succeeds with
\* the ledger length it has without those bytes: the records of the snapshot
\* and those replayed from the entries.
C19_TrailingGarbageIgnored ==
    [][(/\ result'.op = "recover_ledger"
        /\ SnapshotSound(file)
        /\ wal.tail # NoTail
        /\ (wal.tail.len >= ENTRY_HEADER_SIZE => wal.tail.header.at0.bytes # APPEND_MAGIC))
          => LET clean == [wal EXCEPT !.tail = NoTail]
                 snapshot == reconstruct_from_body(open_and_verify(file).value.body,
                                                   CHOOSE seed \in RecoverySeeds : TRUE)
                 replayed == replay_wal(snapshot.value, read_all_entries(clean).value,
                                        CHOOSE seed \in RecoverySeeds : TRUE)
             IN /\ read_all_entries(wal).status = "Ok"
                /\ read_all_entries(wal) = read_all_entries(clean)
                /\ Len(read_all_entries(wal).value) = Len(wal.entries)
                /\ result'.ret = Ok(length(replayed.value.records))]_vars

SnapshotMagics == {MAGIC_NUMBER, "XXXX"}
VersionNumbers == {0, 1, 2}
AlteredChecksum == HexDecode(DigestBytes([len |-> 0, altered |-> TRUE]))
HasHeader(f) == f # AbsentFile /\ FileLen(f) >= HEADER_SIZE

ReaderInit ==
    \E ledger \in RecoveryLedgers, order \in RecoveryOrders, now \in Timestamps,
       present \in BOOLEAN :
        /\ records = ledger.records
        /\ users = ledger.users
        /\ verify_registry = ledger.verify_registry
        /\ file = IF present THEN SnapshotFileOf(ledger, order, now) ELSE AbsentFile
        /\ wal = EmptyWal
        /\ backup = AbsentFile
        /\ workflows = EmptyMap
        /\ result = [op |-> "built", origin |-> "api"]

SetMagic(magic) ==
    /\ HasHeader(file)
    /\ file' = [file EXCEPT !.header.magic = magic]
    /\ result' = [op |-> "set_magic"]
    /\ UNCHANGED <<ledgerVars, wal, backup, workflows>>

SetVersion(major, minor) ==
    /\ HasHeader(file)
    /\ file' = [file EXCEPT !.header.version_major = major,
                            !.header.version_minor = minor]
    /\ result' = [op |-> "set_version"]
    /\ UNCHANGED <<ledgerVars, wal, backup, workflows>>

\* the body bytes change and keep their length
AlterBody ==
    /\ HasHeader(file)
    /\ file' = [file EXCEPT !.body = [len |-> file.body.len, rkyv |-> [malformed |-> TRUE]]]
    /\ result' = [op |-> "alter_body"]
    /\ UNCHANGED <<ledgerVars, wal, backup, workflows>>

\* the stored checksum becomes the digest of other bytes, or that of the body
StoreChecksum(of_body) ==
    /\ HasHeader(file)
    /\ file' = [file EXCEPT !.header.checksum =
                   IF of_body THEN HexDecode(DigestBytes(file.body))
                   ELSE AlteredChecksum]
    /\ result' = [op |-> "store_checksum"]
    /\ UNCHANGED <<ledgerVars, wal, backup, workflows>>

ReaderNext ==
    \/ \E order \in RecoveryOrders, now \in Timestamps : WriteLedger(order, now)
    \/ \E magic \in SnapshotMagics : SetMagic(magic)
    \/ \E major, minor \in VersionNumbers : SetVersion(major, minor)
    \/ AlterBody
    \/ \E of_body \in BOOLEAN : StoreChecksum(of_body)
    \/ ReadAndVerify

ReaderSpec == ReaderInit /\ [][ReaderNext]_vars

\* ------------------------------------------------------------------------
\* Workflow engine: workflow/definition.rs, workflow/transition.rs,
\* workflow/engine.rs.  The catalog maps a workflow id to its definition.
\* ------------------------------------------------------------------------
WorkflowStateOf(id, label) == [id |-> id, label |-> label]
TransitionOf(from_state, to_state, name, required_roles) ==
    [from_state |-> from_state, to_state |-> to_state, name |-> name,
     required_roles |-> required_roles]
WorkflowFields == {"id", "name", "description", "states", "transitions", "initial_state"}

\* the workflow of the engine's tests
TestStates ==
    <<WorkflowStateOf("draft", "Draft"), WorkflowStateOf("review", "Under Review"),
      WorkflowStateOf("published", "Published"), WorkflowStateOf("archived", "Archived")>>
TestWorkflow ==
    [id |-> "test_workflow", name |-> "Test Workflow", description |-> "A test workflow",
     initial_state |-> "draft", states |-> TestStates,
     transitions |->
        <<TransitionOf("draft", "review", "Submit for Review", <<"editor">>),
          TransitionOf("review", "published", "Publish", <<"admin", "editor">>),
          TransitionOf("review", "draft", "Return to Draft", <<"editor">>),
          TransitionOf("published", "archived", "Archive", <<"admin">>)>>]
\* a later definition under the same id, with two transitions for one pair
RevisedWorkflow ==
    [TestWorkflow EXCEPT !.transitions =
        <<TransitionOf("draft", "review", "Submit for Review", <<"admin">>),
          TransitionOf("draft", "review", "Fast Track", <<"editor">>),
          TransitionOf("review", "published", "Publish", <<>>)>>]
EmptyStatesWorkflow ==
    [TestWorkflow EXCEPT !.id = "other", !.states = <<>>, !.transitions = <<>>]
UndefinedInitialWorkflow ==
    [TestWorkflow EXCEPT !.id = "other", !.initial_state = "s2", !.transitions = <<>>]
UndefinedTargetWorkflow ==
    [TestWorkflow EXCEPT !.id = "other",
        !.transitions = <<TransitionOf("draft", "ghost", "Vanish", <<"editor">>)>>]
\* a JSON object without the key initial_state
IncompleteDefinition ==
    [id |-> "other", name |-> "Test Workflow", description |-> "A test workflow",
     states |-> TestStates, transitions |-> <<>>]
WorkflowDefinitions ==
    {TestWorkflow, RevisedWorkflow, EmptyStatesWorkflow, UndefinedInitialWorkflow,
     UndefinedTargetWorkflow, IncompleteDefinition}
\* "other" is in the catalog only after load_workflow_from_json
WorkflowIds == {"test_workflow", "other"}
StateIds == {"draft", "review", "published", "archived"}

\* serde_json::from_value into Workflow
from_value(definition) ==
    IF DOMAIN definition # WorkflowFields
    THEN Err("Parsing", "missing field")
    ELSE Ok(definition)
StateIdsOf(workflow) == {workflow.states[j].id : j \in 1..Len(workflow.states)}

load_workflow(catalog, workflow_map) ==
    LET parsed == from_value(workflow_map)
        workflow == parsed.value
    IN IF parsed.status = "Err"
       THEN [workflows |-> catalog, ret |-> parsed]
       ELSE IF workflow.states = <<>>
       THEN [workflows |-> catalog,
             ret |-> Err("Definition", "Workflow must have at least one state")]
       ELSE IF workflow.initial_state \notin StateIdsOf(workflow)
       THEN [workflows |-> catalog,
             ret |-> Err("Definition", "Start state not found in workflow states")]
       ELSE [workflows |-> MapInsert(catalog, workflow.id, workflow), ret |-> Ok(workflow)]

load_workflow_from_json(catalog, workflow_json) ==
    LET parsed == from_value(workflow_json)
    IN IF parsed.status = "Err"
       THEN [workflows |-> catalog, ret |-> parsed]
       ELSE [workflows |-> MapInsert(catalog, parsed.value.id, parsed.value),
             ret |-> Ok(parsed.value)]

UnknownWorkflow(workflow_id) ==
    Err("Parsing", [text |-> "Unknown workflow", workflow_id |-> workflow_id])

\* transitions leaving a state, last defined first
get_valid_transitions_Reversed(catalog, workflow_id, current_state) ==
    IF workflow_id \notin DOMAIN catalog THEN UnknownWorkflow(workflow_id)
    ELSE LET found == SelectSeq(catalog[workflow_id].transitions,
                                LAMBDA t : t.from_state = current_state)
         IN Ok([j \in 1..Len(found) |-> found[Len(found) + 1 - j]])

get_valid_transitions(catalog, workflow_id, current_state) ==
    IF workflow_id \notin DOMAIN catalog THEN UnknownWorkflow(workflow_id)
    ELSE Ok(SelectSeq(catalog[workflow_id].transitions,
                      LAMBDA t : t.from_state = current_state))

\* the roles of all signers together
SignerRoles(signers) == UNION {signers[j].roles : j \in 1..Len(signers)}
NoTransition(from_state, to_state) ==
    Err("Validation", [text |-> "No valid transition",
                       from_state |-> from_state, to_state |-> to_state])
MissingRoles(missing_roles) ==
    Err("Validation", [text |-> "Missing required roles", roles |-> missing_roles])

\* a validation that wants one signer to hold every required role
validate_transition_OneSigner(catalog, workflow_id, from_state, to_state, signers, _payload) ==
    IF workflow_id \notin DOMAIN catalog THEN UnknownWorkflow(workflow_id)
    ELSE LET matching == SelectSeq(catalog[workflow_id].transitions,
                                   LAMBDA t : t.from_state = from_state
                                              /\ t.to_state = to_state)
         IN IF matching = <<>> THEN NoTransition(from_state, to_state)
            ELSE IF \E j \in 1..Len(signers) :
                       \A k \in 1..Len(matching[1].required_roles) :
                          matching[1].required_roles[k] \in signers[j].roles
            THEN Ok(TRUE)
            ELSE MissingRoles(SelectSeq(matching[1].required_roles,
                                        LAMBDA r : r \notin SignerRoles(signers)))

\* a validation that also accepts a pair joined by two transitions
validate_transition_TwoSteps(catalog, workflow_id, from_state, to_state, signers, _payload) ==
    IF workflow_id \notin DOMAIN catalog THEN UnknownWorkflow(workflow_id)
    ELSE LET ts == catalog[workflow_id].transitions
             matching == SelectSeq(ts, LAMBDA t : t.from_state = from_state
                                                  /\ t.to_state = to_state)
             missing_roles == SelectSeq(matching[1].required_roles,
                                        LAMBDA r : r \notin SignerRoles(signers))
         IN IF matching = <<>>
            THEN IF \E j, k \in 1..Len(ts) :
                       /\ ts[j].from_state = from_state
                       /\ ts[j].to_state = ts[k].from_state
                       /\ ts[k].to_state = to_state
                 THEN Ok(TRUE)
                 ELSE NoTransition(from_state, to_state)
            ELSE IF missing_roles # <<>> THEN MissingRoles(missing_roles)
            ELSE Ok(TRUE)

\* a validation that refuses an empty payload
validate_transition_PayloadChecked(catalog, workflow_id, from_state, to_state, signers, _payload) ==
    IF workflow_id \notin DOMAIN catalog THEN UnknownWorkflow(workflow_id)
    ELSE LET matching == SelectSeq(catalog[workflow_id].transitions,
                                   LAMBDA t : t.from_state = from_state
                                              /\ t.to_state = to_state)
             missing_roles == SelectSeq(matching[1].required_roles,
                                        LAMBDA r : r \notin SignerRoles(signers))
         IN IF matching = <<>> THEN NoTransition(from_state, to_state)
            ELSE IF missing_roles # <<>> THEN MissingRoles(missing_roles)
            ELSE IF _payload = "" THEN NoTransition(from_state, to_state)
            ELSE Ok(TRUE)

\* _payload is taken and not used
validate_transition(catalog, workflow_id, from_state, to_state, signers, _payload) ==
    IF workflow_id \notin DOMAIN catalog THEN UnknownWorkflow(workflow_id)
    ELSE LET matching == SelectSeq(catalog[workflow_id].transitions,
                                   LAMBDA t : t.from_state = from_state
                                              /\ t.to_state = to_state)
             transition == matching[1]
             signer_roles == SignerRoles(signers)
             missing_roles == SelectSeq(transition.required_roles,
                                        LAMBDA r : r \notin signer_roles)
         IN IF matching = <<>> THEN NoTransition(from_state, to_state)
            ELSE IF missing_roles # <<>> THEN MissingRoles(missing_roles)
            ELSE Ok(TRUE)

\* the signers of the tests: one holding admin, one holding editor, one
\* holding no role
WithRoles(user, roles) == [user EXCEPT !.roles = roles]
WorkflowUsers ==
    {WithRoles(UserNew("alice", 1), {"admin"}), WithRoles(UserNew("bob", 3), {"editor"}),
     WithRoles(UserNew("alice", 2), {})}
WorkflowSignerLists ==
    {signers \in UNION {[1..n -> WorkflowUsers] : n \in 0..MaxSigners} :
        \A j, k \in 1..Len(signers) : j # k => signers[j] # signers[k]}

WorkflowInit ==
    LET ledger == LedgerNew(GenesisKey, CHOOSE t \in Timestamps : TRUE,
                            CHOOSE n \in Nonces : TRUE)
    IN /\ records = ledger.records
       /\ users = ledger.users
       /\ verify_registry = ledger.verify_registry
       /\ file = AbsentFile
       /\ wal = EmptyWal
       /\ backup = AbsentFile
       /\ workflows = EmptyMap
       /\ result = [op |-> "new"]

LoadWorkflow(definition) ==
    LET after == load_workflow(workflows, definition)
    IN /\ workflows' = after.workflows
       /\ result' = [op |-> "load_workflow", definition |-> definition,
                     ret |-> after.ret]
       /\ UNCHANGED <<ledgerVars, diskVars>>

LoadWorkflowFromJson(definition) ==
    LET after == load_workflow_from_json(workflows, definition)
    IN /\ workflows' = after.workflows
       /\ result' = [op |-> "load_workflow_from_json", definition |-> definition,
                     ret |-> after.ret]
       /\ UNCHANGED <<ledgerVars, diskVars>>

GetValidTransitions(workflow_id, current_state) ==
    /\ result' = [op |-> "get_valid_transitions", workflow_id |-> workflow_id,
                  current_state |-> current_state,
                  ret |-> get_valid_transitions(workflows, workflow_id, current_state)]
    /\ UNCHANGED <<ledgerVars, diskVars, workflows>>

\* the payload of the call is not recorded: nothing of it is returned
ValidateTransition(workflow_id, from_state, to_state, signers, payload) ==
    /\ result' = [op |-> "validate_transition", workflow_id |-> workflow_id,
                  from_state |-> from_state, to_state |-> to_state,
                  signers |-> signers,
                  ret |-> validate_transition(workflows, workflow_id, from_state,
                                              to_state, signers, payload)]
    /\ UNCHANGED <<ledgerVars, diskVars, workflows>>

WorkflowNext ==
    \/ \E definition \in WorkflowDefinitions : LoadWorkflow(definition)
    \/ \E definition \in WorkflowDefinitions : LoadWorkflowFromJson(definition)
    \/ \E workflow_id \in WorkflowIds, current_state \in StateIds :
          GetValidTransitions(workflow_id, current_state)
    \/ \E workflow_id \in WorkflowIds, from_state, to_state \in StateIds,
          signers \in WorkflowSignerLists, payload \in Payloads :
            ValidateTransition(workflow_id, from_state, to_state, signers, payload)

WorkflowSpec == WorkflowInit /\ [][WorkflowNext]_vars

C22_MajorVersionOnly ==
    [][(/\ result'.op = "read_and_verify"
        /\ HasHeader(file)
        /\ file.header.magic = MAGIC_NUMBER)
          => /\ file.header.version_major # 1
                  => result'.ret = Err("UnsupportedVersion",
                                       <<file.header.version_major,
                                         file.header.version_minor>>)
             /\ file.header.version_major = 1
                  => /\ result'.ret.status = "Err" => result'.ret.kind # "UnsupportedVersion"
                     /\ \A minor \in VersionNumbers :
                           read_and_verify([file EXCEPT !.header.version_minor = minor])
                              = IF result'.ret.status = "Err" THEN result'.ret
                                ELSE Ok([result'.ret.value EXCEPT
                                           !.header.version_minor = minor])]_vars
C22_Witness ==
    /\ result.op = "read_and_verify"
    /\ result.ret.status = "Ok"
    /\ file.header.version_major = 1
    /\ file.header.version_minor = 2

\* C23: read_and_verify returns InvalidMagic for every file whose header
\* does not carry the UKWL magic, whatever its version and its checksum.
C23_MagicFirst ==
    [][(/\ result'.op = "read_and_verify"
        /\ HasHeader(file)
        /\ file.header.magic # MAGIC_NUMBER)
          => result'.ret = Err("InvalidMagic", "")]_vars
C23_Witness ==
    /\ result.op = "read_and_verify"
    /\ result.ret = Err("InvalidMagic", "")
    /\ file.header.version_major # 1
    /\ file.header.checksum # HexDecode(DigestBytes(file.body))

\* the positions of the transitions of a workflow that join a pair of states
MatchingPositions(workflow, from_state, to_state) ==
    {j \in 1..Len(workflow.transitions) :
        /\ workflow.transitions[j].from_state = from_state
        /\ workflow.transitions[j].to_state = to_state}
RolesHeld(transition, signers) ==
    \A k \in 1..Len(transition.required_roles) :
        \E j \in 1..Len(signers) : transition.required_roles[k] \in signers[j].roles
ValidatedKnown == result.op = "validate_transition" /\ result.workflow_id \in DOMAIN workflows

\* C24 as stated: validate_transition succeeds exactly when the workflow has
\* some transition (from, to) all of whose required roles are held by the
\* signers between them.
C24_AnyMatchingTransition ==
    ValidatedKnown
        => LET workflow == workflows[result.workflow_id]
           IN (result.ret = Ok(TRUE))
                 <=> \E j \in MatchingPositions(workflow, result.from_state, result.to_state) :
                        RolesHeld(workflow.transitions[j], result.signers)

\* C24: validate_transition succeeds exactly when the workflow has a
\* transition (from, to) and every required role of the first such
\* transition in definition order is held by at least one signer; when that
\* transition exists and a role is not held, it fails naming, in the order
\* of required_roles, exactly the roles that no signer holds.
C24_FirstMatchingTransition ==
    ValidatedKnown
        => LET workflow == workflows[result.workflow_id]
               matching == MatchingPositions(workflow, result.from_state, result.to_state)
               first == workflow.transitions[CHOOSE j \in matching :
                                                \A k \in matching : j <= k]
               held(role) == \E j \in 1..Len(result.signers) :
                                role \in result.signers[j].roles
           IN /\ (result.ret = Ok(TRUE)) <=> (matching # {} /\ RolesHeld(first, result.signers))
              /\ (matching # {} /\ ~RolesHeld(first, result.signers))
                    => /\ result.ret.status = "Err"
                       /\ result.ret.kind = "Validation"
                       /\ result.ret.msg.text = "Missing required roles"
                       /\ \A role \in {"admin", "editor"} :
                             (\E k \in 1..Len(result.ret.msg.roles) :
                                 result.ret.msg.roles[k] = role)
                                <=> (/\ \E k \in 1..Len(first.required_roles) :
                                           first.required_roles[k] = role
                                     /\ ~held(role))
C24_Witness ==
    /\ ValidatedKnown
    /\ workflows[result.workflow_id] = TestWorkflow
    /\ result.from_state = "review"
    /\ result.to_state = "published"
    /\ Len(result.signers) = 1
    /\ result.signers[1].roles = {"admin"}
    /\ result.ret = MissingRoles(<<"editor">>)

\* C25: when the workflow has no transition whose from_state and to_state
\* are the given pair, validate_transition fails with the no-transition
\* error, whatever roles the signers hold; two transitions in a row
\* (draft -> review -> published) do not stand for draft -> published.
C25_NoTransition ==
    (/\ ValidatedKnown
     /\ MatchingPositions(workflows[result.workflow_id],
                          result.from_state, result.to_state) = {})
        => /\ result.ret.status = "Err"
           /\ result.ret.kind = "Validation"
           /\ result.ret.msg = [text |-> "No valid transition",
                                from_state |-> result.from_state,
                                to_state |-> result.to_state]
C25_Witness ==
    /\ ValidatedKnown
    /\ workflows[result.workflow_id] = TestWorkflow
    /\ result.from_state = "draft"
    /\ result.to_state = "published"
    /\ SignerRoles(result.signers) = {"admin", "editor"}
    /\ result.ret.status = "Err"
    /\ result.ret.msg.text = "No valid transition"

\* C26: get_valid_transitions returns the transitions of the workflow whose
\* from_state is the given state, all of them and in definition order (none
\* for a state that no transition leaves), and fails naming the workflow
\* when its id is not in the catalog.
C26_ValidTransitions ==
    result.op = "get_valid_transitions"
        => IF result.workflow_id \notin DOMAIN workflows
           THEN /\ result.ret.status = "Err"
                /\ result.ret.msg = [text |-> "Unknown workflow",
                                     workflow_id |-> result.workflow_id]
           ELSE LET ts == workflows[result.workflow_id].transitions
                    leaving == {j \in 1..Len(ts) : ts[j].from_state = result.current_state}
                    nth(k) == CHOOSE j \in leaving :
                                 Cardinality({i \in leaving : i < j}) = k - 1
                IN /\ result.ret.status = "Ok"
                   /\ Len(result.ret.value) = Cardinality(leaving)
                   /\ \A k \in 1..Len(result.ret.value) : result.ret.value[k] = ts[nth(k)]
C26_Witness ==
    /\ result.op = "get_valid_transitions"
    /\ result.workflow_id \in DOMAIN workflows
    /\ workflows[result.workflow_id] = TestWorkflow
    /\ result.current_state = "review"
    /\ result.ret.status = "Ok"
    /\ Len(result.ret.value) = 2
    /\ result.ret.value[1].to_state = "published"
    /\ result.ret.value[2].to_state = "draft"

\* C27: every workflow in the catalog has at least one state, an
\* initial_state that is one of its state ids, and only transitions between
\* its state ids; a load of a definition without one of these returns a
\* Definition error and leaves the catalog as it was.
WellFormedWorkflow(workflow) ==
    /\ workflow.states # <<>>
    /\ workflow.initial_state \in StateIdsOf(workflow)
    /\ \A j \in 1..Len(workflow.transitions) :
          /\ workflow.transitions[j].from_state \in StateIdsOf(workflow)
          /\ workflow.transitions[j].to_state \in StateIdsOf(workflow)
C27_CatalogWellFormed ==
    /\ [](\A id \in DOMAIN workflows : WellFormedWorkflow(workflows[id]))
    /\ [][(/\ result'.op \in {"load_workflow", "load_workflow_from_json"}
           /\ DOMAIN result'.definition = WorkflowFields
           /\ ~WellFormedWorkflow(result'.definition))
             => /\ result'.ret.status = "Err"
                /\ result'.ret.kind = "Definition"
                /\ UNCHANGED workflows]_vars

\* C28: when the chain obtained from a sound snapshot and the entries of the
\* WAL fails verify_chain, recover_ledger returns ValidationFailed and the
\* snapshot file and the WAL hold what they held before the call.
C28_VerifiedBeforeCompaction ==
    [][(/\ result'.op = "recover_ledger"
        /\ SnapshotSound(file)
        /\ read_all_entries(wal).status = "Ok"
        /\ read_all_entries(wal).value # <<>>
        /\ LET seed == CHOOSE sd \in RecoverySeeds : TRUE
               snapshot == reconstruct_from_body(open_and_verify(file).value.body, seed)
               replayed == replay_wal(snapshot.value, read_all_entries(wal).value, seed)
           IN /\ replayed.status = "Ok"
              /\ verify_chain(replayed.value.records,
                              replayed.value.verify_registry).status = "Err")
          => /\ result'.ret.status = "Err"
             /\ result'.ret.kind = "ValidationFailed"
             /\ file' = file
             /\ wal' = wal]_vars

\* C29: every record that recover_ledger took from an entry of the WAL has as
\* many signers as the entry has signer ids: an entry with a signer id that
\* is not registered when it is replayed adds no record.
C29_UnknownSignerSkipped ==
    [][(/\ result'.op = "recover_ledger"
        /\ result'.path = "wal only"
        /\ result'.ret.status = "Ok")
          => \A j \in 1..Len(records') :
                \A k \in 1..Len(wal.entries) :
                   (/\ from_bytes(wal.entries[k].header).entry_type = 1
                    /\ wal.entries[k].data.rkyv.record_hash = records'[j].record_hash)
                      => Len(records'[j].signers)
                            = Len(wal.entries[k].data.rkyv.signer_ids)]_vars

\* C30: in every ledger that recover_ledger returns, the record at position
\* i has index i, counting from 0: no gap and no index twice.
C30_RecoveredIndexDense ==
    (result.op = "recover_ledger" /\ result.ret.status = "Ok")
        => \A j \in 1..Len(records) : records[j].index = j - 1

\* C31: users and verify_registry hold the same user_ids, and the verifying
\* key of users[id] is the key verify_registry binds to id, also in a ledger
\* that recover_ledger rebuilt from a snapshot or from the WAL.
C31_RegistryMatchesUsers ==
    /\ DOMAIN users = DOMAIN verify_registry
    /\ \A id \in DOMAIN users : users[id].verifying_key = verify_registry[id]


\* ---------------------------------------------------------------------
\* The manager and compaction when a step fails or the process stops
\* ---------------------------------------------------------------------

\* the points of compact at which the process may stop: after the copy to
\* the backup, after DatabaseWriter::new opened (and emptied) the snapshot,
\* after write_ledger returned, after the WAL was truncated
CompactStages == {"copied", "opened", "written", "truncated"}

\* the files a process leaves when it stops in compact at the stage, and
\* whether compact gets that far (a failed write_ledger returns before the
\* later stages)
compact_killed(f, w, b, ledger, order, now, stage) ==
    LET copied == IF f # AbsentFile THEN f ELSE b
        written == write_ledger(ledger.records, ledger.users, order, now)
    IN CASE stage = "copied" ->
              [file |-> f, wal |-> w, backup |-> copied, reached |-> TRUE]
         [] stage = "opened" ->
              [file |-> EmptyFile, wal |-> w, backup |-> copied, reached |-> TRUE]
         [] stage = "written" ->
              [file |-> written.file, wal |-> w, backup |-> copied,
               reached |-> written.ret.status = "Ok"]
         [] stage = "truncated" ->
              [file |-> written.file, wal |-> truncate(w), backup |-> copied,
               reached |-> written.ret.status = "Ok"]

create_snapshot_Compacting(f, w, b, ledger, order, now) ==
    compact(f, w, b, ledger, order, now, TRUE)

\* create_snapshot on the path of the database: DatabaseWriter::new, then
\* write_ledger; the files afterwards and what it returns
create_snapshot(f, w, b, ledger, order, now) ==
    LET written == write_ledger(ledger.records, ledger.users, order, now)
    IN [file |-> written.file, wal |-> w, backup |-> b, ret |-> written.ret]

\* a sound snapshot of a ledger, no WAL entries, no backup
CrashInit ==
    /\ RecoveryInit
    /\ open_and_verify(file).status = "Ok"

CompactKilled(order, now, stage) ==
    LET L == [records |-> records, users |-> users, verify_registry |-> verify_registry]
        after == compact_killed(file, wal, backup, L, order, now, stage)
    IN /\ after.reached
       /\ file' = after.file
       /\ wal' = after.wal
       /\ backup' = after.backup
       /\ result' = [op |-> "compact_killed", stage |-> stage]
       /\ UNCHANGED <<ledgerVars, workflows>>

CreateSnapshot(order, now) ==
    LET L == [records |-> records, users |-> users, verify_registry |-> verify_registry]
        after == create_snapshot(file, wal, backup, L, order, now)
    IN /\ file' = after.file
       /\ wal' = after.wal
       /\ backup' = after.backup
       /\ result' = [op |-> "create_snapshot", ret |-> after.ret]
       /\ UNCHANGED <<ledgerVars, workflows>>

\* a manager whose WAL writes may fail
ManagerNext ==
    \/ \E user \in ScenarioUsers, now \in Timestamps, written \in BOOLEAN :
          ManagerRegisterUser(user, now, written)
    \/ \E payload \in Payloads, signers \in HolderSignerLists,
          timestamp \in Timestamps, nonce \in Nonces,
          order \in RecoveryOrders, now \in Timestamps, written \in BOOLEAN :
            ManagerAppendRecord(payload, signers, timestamp, nonce, order, now, written)

ManagerSpec == CrashInit /\ [][ManagerNext]_vars

\* a manager whose process may stop in compact, followed by recovery
CrashNext ==
    \/ \E user \in ScenarioUsers, now \in Timestamps :
          ManagerRegisterUser(user, now, TRUE)
    \/ \E payload \in Payloads, signers \in HolderSignerLists,
          timestamp \in Timestamps, nonce \in Nonces,
          order \in RecoveryOrders, now \in Timestamps :
            ManagerAppendRecord(payload, signers, timestamp, nonce, order, now, TRUE)
    \/ \E order \in RecoveryOrders, now \in Timestamps, stage \in CompactStages :
          CompactKilled(order, now, stage)
    \/ \E order \in RecoveryOrders, now \in Timestamps : CreateSnapshot(order, now)
    \/ \E seed \in RecoverySeeds, order \in RecoveryOrders, now \in Timestamps,
          truncates \in BOOLEAN :
            Recover(seed, order, now, truncates)

CrashSpec == CrashInit /\ [][CrashNext]_vars

\* the record hashes a snapshot file and a WAL hold
HeldRecords(f, w) ==
    LET body == open_and_verify(f).value.body
        entries == read_all_entries(w).value
    IN {body.records[j].record_hash : j \in 1..Len(body.records)}
       \cup {entries[j][2].rkyv.record_hash :
                j \in {k \in 1..Len(entries) : entries[k][1].entry_type = 1}}

\* C32: when the process stopped between two steps of compact, the next
\* recover_ledger returns a ledger that has every record the snapshot (kept
\* in <path>.backup) and the WAL held before the compaction.
C32_RecoversAfterKilledCompact ==
    [][(/\ result.op = "compact_killed"
        /\ result'.op = "recover_ledger"
        /\ SnapshotSound(backup)
        /\ read_all_entries(wal).status = "Ok")
          => /\ result'.ret.status = "Ok"
             /\ HeldRecords(backup, wal) \subseteq
                  {records'[j].record_hash : j \in 1..Len(records')}]_vars


\* C33: LedgerManager::append_record writes the WAL entry before it updates
\* the ledger in memory: a call that fails, by the ledger or by the WAL
\* write, leaves the records in memory as they were.
C33_WalBeforeLedger ==
    [][(/\ result'.op = "manager_append_record"
        /\ result'.ret.status = "Err")
          => records' = records]_vars


\* C39: create_snapshot(ledger, path) touches the snapshot file only: the
\* WAL and the backup of the path are what they were, entries included, and
\* the ledger is unchanged.
C39_SnapshotFileOnly ==
    [][result'.op = "create_snapshot"
          => /\ wal' = wal
             /\ backup' = backup
             /\ UNCHANGED ledgerVars]_vars

C39_Witness ==
    /\ result.op = "create_snapshot"
    /\ wal.entries # <<>>
    /\ backup # AbsentFile
    /\ Len(records) > 1


\* C40: what validate_transition returns does not depend on the payload
\* passed to it (any other payload gives the same result for the same
\* workflow, states and signers), and the call leaves the catalog unchanged.
C40_PayloadIgnored ==
    [][result'.op = "validate_transition"
          => /\ \A other \in Payloads :
                   validate_transition(workflows, result'.workflow_id,
                                       result'.from_state, result'.to_state,
                                       result'.signers, other) = result'.ret
             /\ workflows' = workflows]_vars

C40_Witness ==
    /\ result.op = "validate_transition"
    /\ result.workflow_id \in DOMAIN workflows
    /\ workflows[result.workflow_id] = RevisedWorkflow
    /\ Len(result.signers) = MaxSigners
    /\ result.ret = Ok(TRUE)


\* C36: a successful add_record or register_user leaves every record that
\* was in the ledger field for field what it was: the first n records
\* afterwards are the n records before the call.
C36_RecordsImmutable ==
    [][(/\ result'.op \in {"add_record", "register_user"}
        /\ result'.ret.status = "Ok")
          => /\ Len(records') >= Len(records)
             /\ SubSeq(records', 1, Len(records)) = records]_vars

\* a record was added after alice, who signed an earlier record, was
\* registered again with another key
C36_Witness ==
    /\ result.op = "add_record"
    /\ result.ret.status = "Ok"
    /\ Len(records) = MaxRecords
    /\ \E k \in 1..Len(records[2].signers) :
          /\ records[2].signers[k].user_id = "alice"
          /\ records[2].signers[k].verifying_key # verify_registry["alice"]


\* C38: truncate empties the WAL and leaves it usable: read_all_entries
\* then returns no entries, and a user entry and a record entry appended
\* after it are returned by read_all_entries, these two alone and in the
\* order of the appends, whatever the log held before, faults included.
C38_TruncateEmpties ==
    [][result'.op = "truncate"
          => /\ result'.ret = Ok(TRUE)
             /\ read_all_entries(wal') = Ok(<<>>)
             /\ \A id \in DOMAIN users, order \in RecoveryOrders, now \in Timestamps :
                   LET i == Len(records) - 1
                       first == append_user(wal', users[id], now)
                       second == append_record(first.wal, records[i + 1], order, now)
                       read == read_all_entries(second.wal)
                   IN /\ first.ret = Ok(TRUE)
                      /\ second.ret = Ok(TRUE)
                      /\ read.status = "Ok"
                      /\ Len(read.value) = 2
                      /\ read.value[1][1].entry_type = 2
                      /\ read.value[1][2] = UserBytes(users[id])
                      /\ read.value[2][1].entry_type = 1
                      /\ read.value[2][2] = RecordBytes(records[i + 1], order)]_vars

\* a log holding entries up to its bound was truncated
C38_Witness ==
    /\ result.op = "truncate"
    /\ result.held = MaxWalEntries
    /\ wal = EmptyWal


\* C37: recover_ledger on a sound snapshot whose WAL has no entries runs no
\* compaction: it returns the ledger the snapshot holds (its records and
\* its registry), and the snapshot file, the WAL and the backup, absent or
\* not, are what they were.
C37_NoCompactionOnEmptyWal ==
    [][(/\ result'.op = "recover_ledger"
        /\ SnapshotSound(file)
        /\ wal.entries = <<>>
        /\ read_all_entries(wal) = Ok(<<>>))
          => /\ \E seed \in RecoverySeeds :
                   LET held == reconstruct_from_body(open_and_verify(file).value.body,
                                                     seed).value
                   IN /\ result'.ret = Ok(length(held.records))
                      /\ records' = held.records
                      /\ users' = held.users
                      /\ verify_registry' = held.verify_registry
             /\ file' = file
             /\ wal' = wal
             /\ backup' = backup]_vars


\* ---------------------------------------------------------------------
\* replay_wal applied to a ledger in memory and a log of well-formed entries
\* ---------------------------------------------------------------------

\* the users a logged entry may register: a new key for alice, two keys for bob
LoggedUsers == ScenarioUsers \cup {UserNew("bob", 2)}

\* the records a logged entry may carry: made by another process at an index
\* the ledger has or at the next one, with its own nonce, signed by alice,
\* by bob or by both
LoggedRecords ==
    {RecordNew(index, payload, records[Len(records)].record_hash, signers,
               CHOOSE t \in Timestamps : TRUE, (CHOOSE n \in Nonces : TRUE) + 1) :
        index \in {Len(records) - 1, Len(records)},
        payload \in Payloads \ {""},
        signers \in {<<UserNew("alice", 1)>>, <<UserNew("bob", 3)>>,
                     <<UserNew("alice", 1), UserNew("bob", 3)>>}}

ReplayInit ==
    \E ledger \in RecoveryLedgers :
        /\ records = ledger.records
        /\ users = ledger.users
        /\ verify_registry = ledger.verify_registry
        /\ file = AbsentFile
        /\ wal = EmptyWal
        /\ backup = AbsentFile
        /\ workflows = EmptyMap
        /\ result = [op |-> "built", origin |-> "api"]

LogRecord(record, order, now) ==
    /\ WalWritable
    /\ wal' = append_record(wal, record, order, now).wal
    /\ result' = [op |-> "append_record", ret |-> Ok(TRUE)]
    /\ UNCHANGED <<ledgerVars, file, backup, workflows>>

LogUser(user, now) ==
    /\ WalWritable
    /\ wal' = append_user(wal, user, now).wal
    /\ result' = [op |-> "append_user", ret |-> Ok(TRUE)]
    /\ UNCHANGED <<ledgerVars, file, backup, workflows>>

\* replay_wal(&mut ledger, entries) with the entries read from the log; the
\* entries of this scenario are intact, so the replay runs to its end
ReplayWal(seed) ==
    LET L == [records |-> records, users |-> users, verify_registry |-> verify_registry]
        entries == read_all_entries(wal)
        after == replay_wal(L, entries.value, seed)
    IN /\ Len(records) < MaxRecords
       /\ entries.status = "Ok"
       /\ after.status = "Ok"
       /\ records' = after.value.records
       /\ users' = after.value.users
       /\ verify_registry' = after.value.verify_registry
       /\ result' = [op |-> "replay_wal", ret |-> Ok(TRUE)]
       /\ UNCHANGED <<diskVars, workflows>>

ReplayNext ==
    \/ \E record \in LoggedRecords, order \in RecoveryOrders, now \in Timestamps :
          LogRecord(record, order, now)
    \/ \E user \in LoggedUsers, now \in Timestamps : LogUser(user, now)
    \/ \E seed \in RecoverySeeds : ReplayWal(seed)

ReplaySpec == ReplayInit /\ [][ReplayNext]_vars


\* the entries of the given type that the log holds, as serialized values
LoggedEntries == read_all_entries(wal).value
EntriesOfType(entry_type) ==
    {k \in 1..Len(LoggedEntries) : LoggedEntries[k][1].entry_type = entry_type}
Logged(k) == LoggedEntries[k][2].rkyv

\* C34: replay_wal leaves every record the ledger had exactly as it was, also
\* when an entry carries its index; a record it adds has an index the ledger
\* did not have and the payload, hashes, timestamp, nonce and signatures
\* stored in its entry; no index is held twice afterwards, and an entry with
\* a new index and a registered signer has a record afterwards.
C34_ReplayAppendsAsStored ==
    [][result'.op = "replay_wal"
          => LET n == Len(records)
                 had == {records[j].index : j \in 1..n}
             IN /\ Len(records') >= n
                /\ SubSeq(records', 1, n) = records
                /\ \A j \in (n + 1)..Len(records') :
                      /\ records'[j].index \notin had
                      /\ \E k \in EntriesOfType(1) :
                            /\ records'[j].index = Logged(k).index
                            /\ records'[j].payload = Logged(k).payload
                            /\ records'[j].payload_hash = Logged(k).payload_hash
                            /\ records'[j].prev_hash = Logged(k).prev_hash
                            /\ records'[j].record_hash = Logged(k).record_hash
                            /\ records'[j].timestamp = Logged(k).timestamp
                            /\ records'[j].nonce = Logged(k).nonce
                            /\ DOMAIN records'[j].signatures
                                  = {Logged(k).signatures[m][1] :
                                        m \in 1..Len(Logged(k).signatures)}
                            /\ \A m \in 1..Len(Logged(k).signatures) :
                                  records'[j].signatures[Logged(k).signatures[m][1]]
                                     = Logged(k).signatures[m][2].sig
                /\ \A i, j \in 1..Len(records') :
                      i # j => records'[i].index # records'[j].index
                /\ \A k \in EntriesOfType(1) :
                      (/\ Logged(k).index \notin had
                       /\ \E m \in 1..Len(Logged(k).signer_ids) :
                             Logged(k).signer_ids[m] \in DOMAIN users)
                         => \E j \in 1..Len(records') :
                               records'[j].index = Logged(k).index]_vars

\* the log held an entry with the index of a record of the ledger, which
\* stayed, and an entry that was applied
C34_Witness ==
    /\ result.op = "replay_wal"
    /\ \E k \in EntriesOfType(1), j \in 1..Len(records) :
          /\ records[j].index = Logged(k).index
          /\ records[j].record_hash # Logged(k).record_hash
          /\ records[j].nonce \in Nonces
    /\ \E k \in EntriesOfType(1), j \in 1..Len(records) :
          /\ records[j].record_hash = Logged(k).record_hash
          /\ records[j].nonce \notin Nonces

\* C35: replay_wal keeps, for every id the registry had, the key bound to it
\* and the user, whatever user entries carry that id; afterwards the registry
\* holds the ids it had and those of the user entries, and an id it did not
\* have is bound to the key of the first entry that carries it.
C35_ReplayKeepsBoundKey ==
    [][result'.op = "replay_wal"
          => /\ \A id \in DOMAIN verify_registry :
                   /\ verify_registry'[id] = verify_registry[id]
                   /\ users'[id] = users[id]
             /\ DOMAIN verify_registry'
                   = DOMAIN verify_registry
                        \cup {Logged(k).user_id : k \in EntriesOfType(2)}
             /\ \A id \in DOMAIN verify_registry' \ DOMAIN verify_registry :
                   LET carrying == {k \in EntriesOfType(2) : Logged(k).user_id = id}
                       first == CHOOSE k \in carrying : \A other \in carrying : k <= other
                   IN /\ verify_registry'[id] = Logged(first).verifying_key_bytes.key
                      /\ id \in DOMAIN users'
                      /\ users'[id].user_id = id
                      /\ users'[id].roles = Logged(first).roles]_vars

\* the log held two entries for one id with different keys; the replay
\* registered the id and the key of the first entry is the one bound
C35_Witness ==
    /\ result.op = "replay_wal"
    /\ \E k1, k2 \in EntriesOfType(2) :
          /\ k1 < k2
          /\ Logged(k1).user_id = Logged(k2).user_id
          /\ Logged(k1).verifying_key_bytes.key # Logged(k2).verifying_key_bytes.key
          /\ verify_registry[Logged(k1).user_id] = Logged(k1).verifying_key_bytes.key
          /\ users[Logged(k1).user_id].verifying_key # verify_registry[Logged(k1).user_id]

====
